---------------------------- MODULE Spec2Model ----------------------------
(***************************************************************************)
(* A model of the decorator runtime of web-components-template: the        *)
(* attribute transformers, the accessor decorators @attr and @prop, the    *)
(* class decorator @define with its attribute-observation plumbing, and    *)
(* the reactivity bus behind @reactive.                                     *)
(*                                                                         *)
(* The repository holds several coexisting versions of the decorators.     *)
(* The model carries all of them; the variable `variant` says which one    *)
(* a behaviour runs:                                                       *)
(*   "batch"  src/lib/decorators.ts 1-270   MutationObserver + rAF batching *)
(*   "acb"    src/lib/decorators.ts 272-509 attributeChangedCallback, sync  *)
(*   "mosync" src/unnamed/part_000          MutationObserver, sync dispatch *)
(*   "meta"   src/unnamed/part_003          subclass + per-class metadata   *)
(*   "proto"  src/unnamed/part_004          first prototype, no reactivity  *)
(***************************************************************************)
EXTENDS Integers, Sequences, FiniteSets, TLC

(***************************************************************************)
(* JavaScript values.  A number is kept in halves (h = 2 * value), so that *)
(* 2.5 is h = 5: the smallest scale on which Math.trunc does something.    *)
(***************************************************************************)
Undefined == [t |-> "undefined"]

Null == [t |-> "null"]

NaN == [t |-> "NaN"]

Num(h) == [t |-> "number", h |-> h]

Str(s) == [t |-> "string", s |-> s]

Throw == [t |-> "throw"]

IsNum(v) == v.t = "number"

IsThrow(v) == v.t = "throw"

\* JavaScript's === on the values of the model: NaN is not equal to itself.
StrictEq(a, b) == a.t # "NaN" /\ a = b

\* a < b, a <= b, a > b, a >= b on numbers: every comparison with NaN is false.
Lt(a, b) == IsNum(a) /\ IsNum(b) /\ a.h < b.h

Le(a, b) == IsNum(a) /\ IsNum(b) /\ a.h <= b.h

Gt(a, b) == IsNum(a) /\ IsNum(b) /\ a.h > b.h

Ge(a, b) == IsNum(a) /\ IsNum(b) /\ a.h >= b.h

(***************************************************************************)
(* Text is a sequence of one-character strings.                            *)
(***************************************************************************)
DigitChars == <<"0", "1", "2", "3", "4", "5", "6", "7", "8", "9">>

IsDigit(c) == \E i \in 1..10 : DigitChars[i] = c

DigitVal(c) == (CHOOSE i \in 1..10 : DigitChars[i] = c) - 1

AllDigits(s) == \A i \in 1..Len(s) : IsDigit(s[i])

RECURSIVE DigitsValue(_)
DigitsValue(s) ==
  IF s = <<>> THEN 0
  ELSE DigitsValue(SubSeq(s, 1, Len(s) - 1)) * 10 + DigitVal(s[Len(s)])

RECURSIVE DigitsOf(_)
DigitsOf(n) ==
  IF n < 10 THEN <<DigitChars[n + 1]>>
  ELSE DigitsOf(n \div 10) \o <<DigitChars[(n % 10) + 1]>>

RECURSIVE TrimLeft(_)
TrimLeft(s) ==
  IF s # <<>> /\ s[1] = " " THEN TrimLeft(Tail(s)) ELSE s

RECURSIVE TrimRight(_)
TrimRight(s) ==
  IF s # <<>> /\ s[Len(s)] = " " THEN TrimRight(SubSeq(s, 1, Len(s) - 1)) ELSE s

\* index of the first "." of s, or 0
DotIndex(s) ==
  IF \E i \in 1..Len(s) : s[i] = "."
  THEN CHOOSE i \in 1..Len(s) : s[i] = "." /\ \A j \in 1..(i - 1) : s[j] # "."
  ELSE 0

\* the digits before and after the first "."
IntegerPart(s) == IF DotIndex(s) = 0 THEN s ELSE SubSeq(s, 1, DotIndex(s) - 1)

FractionPart(s) == IF DotIndex(s) = 0 THEN <<>> ELSE SubSeq(s, DotIndex(s) + 1, Len(s))

\* The halves of a fraction's digits: "" and "0" are 0, "5" and "50" are 1.
\* Any other fraction is not a multiple of one half; no text of the model has
\* one, and such a text is read as not a number.
FractionHalves(f) ==
  IF \A i \in 1..Len(f) : f[i] = "0" THEN 0
  ELSE IF f[1] = "5" /\ \A i \in 2..Len(f) : f[i] = "0" THEN 1
  ELSE -1

\* the number of an integer part ip and a fraction part fp
DecimalToNumber(ip, fp) ==
  IF ip = <<>> /\ fp = <<>> THEN NaN
  ELSE IF ~(AllDigits(ip) /\ AllDigits(fp)) THEN NaN
  ELSE IF FractionHalves(fp) < 0 THEN NaN
  ELSE Num(2 * DigitsValue(ip) + FractionHalves(fp))

\* An unsigned decimal literal: digits, digits.digits, digits. or .digits
UnsignedToNumber(s) == DecimalToNumber(IntegerPart(s), FractionPart(s))

\* -u
Negate(u) == IF IsNum(u) THEN Num(0 - u.h) ELSE NaN

\* Number(string) of a text without surrounding blanks: the empty text is 0, a
\* sign may lead, and anything that is not a decimal literal is NaN.
TrimmedToNumber(s) ==
  IF s = <<>> THEN Num(0)
  ELSE IF s[1] = "-" THEN Negate(UnsignedToNumber(Tail(s)))
  ELSE IF s[1] = "+" THEN UnsignedToNumber(Tail(s))
  ELSE UnsignedToNumber(s)

\* Number(string): surrounding blanks are dropped
StringToNumber(s) == TrimmedToNumber(TrimRight(TrimLeft(s)))

\* Number(value)
ToNumber(v) ==
  CASE v.t = "number" -> v
    [] v.t = "NaN" -> NaN
    [] v.t = "null" -> Num(0)
    [] v.t = "undefined" -> NaN
    [] v.t = "string" -> StringToNumber(v.s)

\* String(number) of the magnitude a, in halves
MagnitudeText(a) ==
  DigitsOf(a \div 2) \o (IF a % 2 = 1 THEN <<".", "5">> ELSE <<>>)

\* String(value), as a text
ToStringText(v) ==
  CASE v.t = "number" ->
         IF v.h < 0 THEN <<"-">> \o MagnitudeText(0 - v.h) ELSE MagnitudeText(v.h)
    [] v.t = "NaN" -> <<"N", "a", "N">>
    [] v.t = "null" -> <<"n", "u", "l", "l">>
    [] v.t = "undefined" -> <<"u", "n", "d", "e", "f", "i", "n", "e", "d">>
    [] v.t = "string" -> v.s

\* Math.trunc(value): toward zero
MathTrunc(v) ==
  IF ~IsNum(v) THEN v
  ELSE IF v.h >= 0 THEN Num((v.h \div 2) * 2)
  ELSE Num(0 - (((0 - v.h) \div 2) * 2))


(***************************************************************************)
(* The attribute transformers.  A transformer is the record of its options; *)
(* parse, validate and stringify are computed from it as the closures the  *)
(* factory returns compute them.                                           *)
(***************************************************************************)
\* Number.MAX_SAFE_INTEGER and Number.MIN_SAFE_INTEGER are 2^53 - 1 and its
\* negative; the model checker's integers are 32 bits wide, so they stand here
\* as the largest magnitude whose halves still fit.  Every number the model
\* feeds in lies far inside, which is all the comparisons of the code need.
MAX_SAFE_INTEGER == 1073741823

MIN_SAFE_INTEGER == 0 - MAX_SAFE_INTEGER

\* number({ min, max }) and int({ min, max }); a bound is given in units.
number(min, max) == [kind |-> "number", min |-> Num(2 * min), max |-> Num(2 * max)]

int(min, max) == [kind |-> "int", min |-> Num(2 * min), max |-> Num(2 * max)]

\* validateAsNumber that lets what is no number through
validateAsNumberNoNaNTest(min, max, asNumber) ==
  IF Lt(asNumber, min) \/ Gt(asNumber, max) THEN Throw
  ELSE asNumber

\* validate(value) once asNumber = Number(value) is known: the number, or a throw
validateAsNumber(min, max, asNumber) ==
  IF asNumber.t = "NaN" THEN Throw
  ELSE IF Lt(asNumber, min) \/ Gt(asNumber, max) THEN Throw
  ELSE asNumber

\* validateNumber(min, max)(value)
validateNumber(min, max, value) == validateAsNumber(min, max, ToNumber(value))

\* number(options).parse(value) once asNumber = Number(value) is known
numberParseAsNumber(tr, asNumber) ==
  IF Le(asNumber, tr.min) THEN tr.min
  ELSE IF Ge(asNumber, tr.max) THEN tr.max
  ELSE asNumber

\* number(options).parse(value)
numberParse(tr, value) == numberParseAsNumber(tr, ToNumber(value))

\* int(options).parse(value) once asNumber = Number(value) is known
intParseAsNumber(tr, asNumber) ==
  IF Le(asNumber, tr.min) THEN MathTrunc(tr.min)
  ELSE IF Ge(asNumber, tr.max) THEN MathTrunc(tr.max)
  ELSE MathTrunc(asNumber)

\* int(options).parse(value)
intParse(tr, value) == intParseAsNumber(tr, ToNumber(value))

\* number(options).from(value) of the prototype's transformer, once asNumber
\* = Number(value) is known
numberFromAsNumber(tr, asNumber) ==
  IF Lt(asNumber, tr.min) THEN tr.min
  ELSE IF Gt(asNumber, tr.max) THEN tr.max
  ELSE asNumber

\* number(options).from(value) of the prototype's transformer
numberFrom(tr, value) == numberFromAsNumber(tr, ToNumber(value))

\* transformer.parse
Parse(tr, value) ==
  CASE tr.kind = "number" -> numberParse(tr, value)
    [] tr.kind = "int" -> intParse(tr, value)
    [] tr.kind = "from" -> numberFrom(tr, value)

\* a transformer of the page's own that has the parse of tr and no validate
WithoutValidate(tr) == [kind |-> tr.kind, min |-> tr.min, max |-> tr.max, validate |-> Undefined]

\* whether the transformer has a validate: those of number() and int() do
SuppliesValidate(tr) == "validate" \notin DOMAIN tr

\* Validate that takes the transformer's validate for granted
ValidateRequired(tr, value) ==
  IF tr.kind = "from" THEN Parse(tr, value)
  ELSE validateNumber(tr.min, tr.max, value)

\* transformer.validate ?? transformer.parse
Validate(tr, value) ==
  IF tr.kind = "from" \/ ~SuppliesValidate(tr) THEN Parse(tr, value)
  ELSE validateNumber(tr.min, tr.max, value)

\* transformer.stringify ?? String: every transformer of the repository
\* passes String
Stringify(tr, value) == Str(ToStringText(value))

(***************************************************************************)
(* The classes the model decorates.  A is the counter element: it declares *)
(* an attribute "x" and an attributeChangedCallback of its own before any  *)
(* decorator touches it, and has the augmented accessors value and step    *)
(* and a @reactive render method.  B is the scroll-progress element: a     *)
(* @prop accessor p in the version that has @prop, an augmented accessor y *)
(* in the others, and a @reactive render method.  One instance of each     *)
(* exists: a and b.                                                        *)
(***************************************************************************)
Variants == {"batch", "acb", "mosync", "meta", "proto"}

Classes == {"A", "B"}

Elems == {"a", "b"}

ClassOf(e) == IF e = "a" THEN "A" ELSE "B"

VARIABLES
  variant,                  \* which version of the decorators runs
  defined,                  \* classes whose definition has been evaluated
  registered,               \* window.customElements: the tag names defined
  observableAttributes,     \* the module-level Set of attribute names
  platformObserved,         \* per class, the observedAttributes the registry read
  constructed,              \* the instances whose constructor has returned
  store,                    \* per instance and member, the accessor's storage
  attrs,                    \* per instance and name, the DOM attribute
  attributeChangedHandlers, \* WeakMap instance -> { name: changeHandler }
  attributeMetadata,        \* Map constructor -> { name: { key, parse } }
  observers,                \* the MutationObservers, in creation order
  records,                  \* the mutation records queued for delivery
  listeners,                \* the "reactivity" listeners of the bus, in order
  reactivityTargets,        \* the pending Set, in insertion order
  reactivityDispatchHandle, \* "null" or "pending"
  frameRequests,            \* callbacks passed to requestAnimationFrame
  op,                       \* the operation the last step performed
  trace,                    \* what the last step's handlers did
  lastWrite,                \* the last write to an accessor of a since the last frame
  unseen,                   \* the instances notified since their @reactive method last started
  reactionWrites,           \* whether the @reactive method of B assigns an accessor
  shadowRoot,               \* per instance, whether this.shadowRoot is there for the initializers
  shadowListeners,          \* per instance, the listeners @handle added to its shadow root
  time,                     \* the delay @debounce was given, in ticks of the clock
  debounceHandle,           \* the closure's handle: a timer's id, or 0 for undefined
  timers,                   \* window's pending timeouts: id, due time, arguments
  clock,                    \* the time
  wrapperCalls,             \* the calls of the debounced function so far
  funcCalls,                \* the invocations of the wrapped function so far
  other,                    \* a second debounced function: its closure's handle, its calls, its invocations
  transformer,              \* a transformer number(options) or int(options) made on its own
  parsed,                   \* the last call of its parse: the input and what it returned
  validation,               \* the last call of its validate: the input and what it returned
  stringified,              \* the last value it turned into text and parsed back
  scenario,                 \* what the page declares besides the example classes
  released                  \* the instances the element tree has let go of

vars == <<variant, defined, registered, observableAttributes, platformObserved,
          constructed, store, attrs, attributeChangedHandlers, attributeMetadata,
          observers, records, listeners, reactivityTargets,
          reactivityDispatchHandle, frameRequests, op, trace, lastWrite, unseen,
          reactionWrites, shadowRoot, shadowListeners, time, debounceHandle, timers,
          clock, wrapperCalls, funcCalls, other, transformer, parsed, validation,
          stringified, scenario, released>>

\* the debounced function and window's timers
debounceVars == <<time, debounceHandle, timers, clock, wrapperCalls, funcCalls, other>>

\* the transformer that is used on its own
parseVars == <<transformer, parsed, validation, stringified>>

\* the variables no step of the elements changes
elsewhere == <<reactionWrites, shadowRoot, debounceVars, parseVars, scenario, released>>

\* the elements, the registry and the bus
page == <<variant, defined, registered, observableAttributes, platformObserved,
          constructed, store, attrs, attributeChangedHandlers, attributeMetadata,
          observers, records, listeners, reactivityTargets,
          reactivityDispatchHandle, frameRequests, op, trace, lastWrite, unseen,
          shadowRoot, shadowListeners>>

\* at most this many mutation records wait for delivery
MaxRecords == 2

\* the class's tag name
TagOf(c) == IF c = "A" THEN "counter-element" ELSE "scroll-progress"

\* the class's own static observedAttributes, before @define; on the page
\* "overlaps" the counter class itself observes step, which it also declares
\* under @attr
OriginalObserved(c) ==
  IF c # "A" THEN {}
  ELSE IF scenario = "overlaps" THEN {"x", "step"}
  ELSE {"x"}

\* whether the class has an attributeChangedCallback of its own
HasOriginalCallback(c) == c = "A"

\* whether B extends a class of the page that declares an accessor y under
\* @attr, and declares y under @attr again; the ancestor's accessor is the
\* member yBase here (for the versions that file a callback per name)
Redeclares(c) == c = "B" /\ scenario = "redeclares" /\ variant \in {"acb", "meta"}

\* the attribute a member is declared for: context.name
AttrNameOf(m) == IF m = "yBase" THEN "y" ELSE m

\* the decorated accessors an ancestor of the class declares
BaseMembers(c) == IF Redeclares(c) THEN <<"yBase">> ELSE <<>>

\* the decorated accessors the class declares itself
OwnMembers(c) ==
  IF c = "A" THEN <<"value", "step">>
  ELSE IF variant = "batch" THEN <<"p">>
  ELSE <<"y">>

\* the decorated accessors, in declaration order
MemberOrder(c) == BaseMembers(c) \o OwnMembers(c)

Members(c) == {MemberOrder(c)[i] : i \in 1..Len(MemberOrder(c))}

\* the declaration of a member: its decorator, transformer, option and default;
\* on the page "badDefault" step is declared with the default 0, below its
\* minimum, and p with 101, above its maximum
Decl(c, m) ==
  CASE m = "value" ->
         [kind |-> "attr", tr |-> int(0, 9000), reflective |-> FALSE, default |-> Num(0)]
    [] m = "step" ->
         [kind |-> "attr", tr |-> int(1, MAX_SAFE_INTEGER), reflective |-> TRUE,
          default |-> IF scenario = "badDefault" THEN Num(0) ELSE Num(2 * 1)]
    [] m = "y" ->
         [kind |-> "attr", tr |-> number(0, 100), reflective |-> TRUE, default |-> Num(0)]
    [] m = "yBase" ->
         [kind |-> "attr", tr |-> number(0, 1), reflective |-> TRUE, default |-> Num(0)]
    [] m = "p" ->
         [kind |-> "prop", tr |-> number(0, 100), reflective |-> FALSE,
          default |-> IF scenario = "badDefault" THEN Num(2 * 101) ELSE Num(0)]

\* whether the markup gives the counter a the attribute y, which only the
\* other class declares (for the versions with a module-level set of names)
CarriesForeign == scenario = "shared" /\ variant \in {"acb", "meta"}

\* the attribute names an instance can carry in the model
\* (x matters where @define wraps attributeChangedCallback, y where B has it)
AttrNames(e) ==
  IF e = "a"
  THEN IF variant \in {"batch", "mosync"} THEN {"value", "step"}
       ELSE IF CarriesForeign THEN {"value", "step", "x", "y"}
       ELSE {"value", "step", "x"}
  ELSE IF variant = "batch" THEN {}
  ELSE {"y"}

\* the @handle methods of a class, in declaration order: the counter's
\* increment and decrement; the prototype has no @handle
HandleDecls(c) ==
  IF c = "A" /\ variant # "proto"
  THEN <<[type |-> "click", selector |-> "button.plus", method |-> "increment"],
         [type |-> "click", selector |-> "button.minus", method |-> "decrement"]>>
  ELSE <<>>

\* whether the class has a @reactive method
HasReactive(c) == variant # "proto"

\* the transformer @attr or @prop was given; the prototype knows only
\* number() with from and to
TransformerOf(c, m) ==
  IF variant = "proto" THEN [Decl(c, m).tr EXCEPT !.kind = "from"]
  ELSE IF scenario = "parseOnly" /\ c = "B" THEN WithoutValidate(Decl(c, m).tr)
  ELSE Decl(c, m).tr

\* isReflectiveAttribute / isReactiveAttribute; the prototype reflects always
IsReflective(c, m) ==
  Decl(c, m).kind = "attr" /\ (variant = "proto" \/ Decl(c, m).reflective)

(***************************************************************************)
(* The handlers.  A handler is an operator from the program's state S (a   *)
(* record of the mutable structures plus the trace of the running step) to *)
(* the state it leaves, so that one handler can call another: a setter     *)
(* calls setAttribute, which runs attributeChangedCallback, which calls a  *)
(* change handler, which dispatches to the listeners.                      *)
(***************************************************************************)
EmptyTrace(phase) ==
  [phase |-> phase,      \* "define", "constructor", "upgrade", "set", ...
   threw |-> FALSE,      \* the step ended in an exception
   calls |-> <<>>,       \* invocations of @reactive methods
   published |-> <<>>,   \* change notifications published, by source
   attrWrites |-> <<>>,  \* setAttribute calls made by the decorators
   origCalls |-> <<>>,   \* calls of the class's own attributeChangedCallback
   handled |-> <<>>,     \* calls of @handle methods
   initializers |-> <<>>,\* members whose decorator called addInitializer
   defines |-> <<>>,     \* calls of window.customElements.define
   order |-> <<>>,       \* the class's own callback and the parse calls, as they ran
   parses |-> 0,         \* calls of transformer.parse
   stores |-> 0]         \* writes of the accessor's storage by a setter

Cur(phase) ==
  [store |-> store, attrs |-> attrs, handlers |-> attributeChangedHandlers,
   metadata |-> attributeMetadata, observers |-> observers, records |-> records,
   listeners |-> listeners, targets |-> reactivityTargets,
   handle |-> reactivityDispatchHandle, frames |-> frameRequests,
   unseen |-> unseen, shadow |-> shadowListeners, trace |-> EmptyTrace(phase)]

Commit(S) ==
  /\ store' = S.store
  /\ attrs' = S.attrs
  /\ attributeChangedHandlers' = S.handlers
  /\ attributeMetadata' = S.metadata
  /\ observers' = S.observers
  /\ records' = S.records
  /\ listeners' = S.listeners
  /\ reactivityTargets' = S.targets
  /\ reactivityDispatchHandle' = S.handle
  /\ frameRequests' = S.frames
  /\ unseen' = S.unseen
  /\ shadowListeners' = S.shadow
  /\ trace' = S.trace

Range(q) == {q[i] : i \in 1..Len(q)}

\* value.call(this) of a @reactive method; the method may assign an accessor,
\* so its definition follows that of the accessors
RECURSIVE CallReactive(_, _, _, _)

\* ReactivityListener without the test of the event's source
ReactivityListenerAnySource(S, l, source) == CallReactive(S, l, "event", source)

\* the listener @reactive adds: it calls the method when the source is its own
ReactivityListener(S, l, source) ==
  IF source = l THEN CallReactive(S, l, "event", source) ELSE S

RECURSIVE DispatchTo(_, _, _)
DispatchTo(S, ls, source) ==
  IF ls = <<>> THEN S
  ELSE DispatchTo(ReactivityListener(S, Head(ls), source), Tail(ls), source)

\* reactivityEventBus.dispatchEvent(new ReactivityEvent(source))
DispatchEvent(S, source) == DispatchTo(S, S.listeners, source)

\* EnqueueReactivityEvent without the test of the handle: every notification
\* requests a frame
EnqueueRequestsEveryTime(S, target) ==
  [S EXCEPT !.targets = IF target \in Range(@) THEN @ ELSE Append(@, target),
            !.handle = "pending",
            !.frames = Append(@, [kind |-> "flush"])]

\* enqueueReactivityEvent(target): the target joins the pending set, and a
\* frame callback is requested unless one is pending
EnqueueReactivityEvent(S, target) ==
  [S EXCEPT !.targets = IF target \in Range(@) THEN @ ELSE Append(@, target),
            !.handle = IF @ = "null" THEN "pending" ELSE @,
            !.frames = IF S.handle = "null" THEN Append(@, [kind |-> "flush"]) ELSE @]

\* for (const target of reactivityTargets) dispatchEvent(...): the loop walks
\* the Set itself, so a target added while it runs is visited too, and one
\* that is in the Set already is not visited again
RECURSIVE FlushTargets(_, _)
FlushTargets(S, i) ==
  IF i > Len(S.targets) THEN S ELSE FlushTargets(DispatchEvent(S, S.targets[i]), i + 1)

\* the callback enqueueReactivityEvent passes to requestAnimationFrame
FlushReactivity(S) ==
  [FlushTargets(S, 1) EXCEPT !.handle = "null", !.targets = <<>>]

\* the trace notes a notification for e, and e has news its @reactive method
\* has not started on
Published(S, e) ==
  [S EXCEPT !.trace.published = Append(@, e), !.unseen = @ \cup {e}]

\* a decorator publishes "this object changed": through the batching queue in
\* the batching version, by a synchronous dispatch in the others
Publish(S, e) ==
  IF variant = "batch"
  THEN EnqueueReactivityEvent(Published(S, e), e)
  ELSE DispatchEvent(Published(S, e), e)

\* set.call(this, value) of the accessor a decorator wraps
SetCall(S, e, m, value) ==
  [S EXCEPT !.store[e][m] = value, !.trace.stores = @ + 1]

CountParse(S) == [S EXCEPT !.trace.parses = @ + 1, !.trace.order = Append(@, "parse")]

\* ChangeHandler without the dispatch
ChangeHandlerSilent(S, e, m, attrValue) ==
  SetCall(CountParse(S), e, m, Parse(TransformerOf(ClassOf(e), m), attrValue))

\* changeHandler(attrValue) of the attributeChangedCallback version
ChangeHandler(S, e, m, attrValue) ==
  Publish(SetCall(CountParse(S), e, m, Parse(TransformerOf(ClassOf(e), m), attrValue)), e)

\* the class's own attributeChangedCallback(name, oldValue, newValue)
OriginalAttributeChangedCallback(S, e, name, oldValue, newValue) ==
  [S EXCEPT !.trace.origCalls =
     Append(@, [e |-> e, name |-> name, oldValue |-> oldValue, newValue |-> newValue]),
            !.trace.order = Append(@, "original")]

\* the first statement of the attributeChangedCallback @define installs: the
\* class's own callback, for the names the class observed itself
CallOriginal(S, e, name, oldValue, newValue) ==
  IF HasOriginalCallback(ClassOf(e)) /\ name \in OriginalObserved(ClassOf(e))
  THEN OriginalAttributeChangedCallback(S, e, name, oldValue, newValue)
  ELSE S

\* CallChangeHandler that reports a change for every name of the
\* module-level set
CallChangeHandlerAnyName(S, e, name, oldValue, newValue) ==
  IF oldValue = newValue THEN S
  ELSE IF name \in DOMAIN S.handlers[e]
    THEN ChangeHandler(S, e, S.handlers[e][name], newValue)
  ELSE IF name \in observableAttributes THEN DispatchEvent(Published(S, e), e)
  ELSE S

\* its remaining statements: nothing for equal texts, else the instance's
\* change handler for the name, if there is one
CallChangeHandler(S, e, name, oldValue, newValue) ==
  IF oldValue = newValue THEN S
  ELSE IF name \in DOMAIN S.handlers[e]
    THEN ChangeHandler(S, e, S.handlers[e][name], newValue)
  ELSE S

\* AttributeChangedCallback with the test for equal texts as its first
\* statement, and the class's own callback after the change handler
AttributeChangedCallbackTestsFirst(S, e, name, oldValue, newValue) ==
  IF oldValue = newValue THEN S
  ELSE CallOriginal(CallChangeHandler(S, e, name, oldValue, newValue), e, name, oldValue, newValue)

\* attributeChangedCallback as @define of the attributeChangedCallback version
\* installs it
AttributeChangedCallback(S, e, name, oldValue, newValue) ==
  CallChangeHandler(CallOriginal(S, e, name, oldValue, newValue), e, name, oldValue, newValue)

\* super.attributeChangedCallback?.(name, oldValue, newValue)
CallSuper(S, e, name, oldValue, newValue) ==
  IF HasOriginalCallback(ClassOf(e))
  THEN OriginalAttributeChangedCallback(S, e, name, oldValue, newValue)
  ELSE S

\* if (this[key] !== transformedValue) { this[key] = ...; dispatchEvent } of
\* part_003
StoreTransformedMeta(S, e, m, transformedValue) ==
  IF ~StrictEq(S.store[e][m], transformedValue)
  THEN DispatchEvent(Published([S EXCEPT !.store[e][m] = transformedValue,
                                         !.trace.stores = @ + 1], e), e)
  ELSE S

\* if (this[key] !== transformedValue) { this[key] = ... } of part_004
StoreTransformedProto(S, e, m, transformedValue) ==
  IF ~StrictEq(S.store[e][m], transformedValue)
  THEN [S EXCEPT !.store[e][m] = transformedValue, !.trace.stores = @ + 1]
  ELSE S

\* the statements after the super call in part_003: nothing for equal texts,
\* else the entry of the class's metadata under the name, if there is one
ApplyMetadataMeta(S, e, name, oldValue, newValue) ==
  IF oldValue = newValue THEN S
  ELSE IF name \in DOMAIN S.metadata[ClassOf(e)]
    THEN StoreTransformedMeta(
           CountParse(S), e, S.metadata[ClassOf(e)][name],
           Parse(TransformerOf(ClassOf(e), S.metadata[ClassOf(e)][name]), newValue))
  ELSE S

\* the same statements in part_004
ApplyMetadataProto(S, e, name, oldValue, newValue) ==
  IF oldValue = newValue THEN S
  ELSE IF name \in DOMAIN S.metadata[ClassOf(e)]
    THEN StoreTransformedProto(
           CountParse(S), e, S.metadata[ClassOf(e)][name],
           Parse(TransformerOf(ClassOf(e), S.metadata[ClassOf(e)][name]), newValue))
  ELSE S

\* attributeChangedCallback of the subclass @define of part_003 returns
AttributeChangedCallbackMeta(S, e, name, oldValue, newValue) ==
  ApplyMetadataMeta(CallSuper(S, e, name, oldValue, newValue), e, name, oldValue, newValue)

\* attributeChangedCallback of the subclass @define of part_004 returns
AttributeChangedCallbackProto(S, e, name, oldValue, newValue) ==
  ApplyMetadataProto(CallSuper(S, e, name, oldValue, newValue), e, name, oldValue, newValue)

\* The platform's attribute-change reaction for an observed attribute of a
\* custom element: it calls the attributeChangedCallback the class has, which
\* is the decorators' where @define installs one and the class's own where it
\* does not.
CustomElementReaction(S, e, name, oldValue, newValue) ==
  CASE variant = "acb" -> AttributeChangedCallback(S, e, name, oldValue, newValue)
    [] variant = "meta" -> AttributeChangedCallbackMeta(S, e, name, oldValue, newValue)
    [] variant = "proto" -> AttributeChangedCallbackProto(S, e, name, oldValue, newValue)
    [] OTHER -> CallSuper(S, e, name, oldValue, newValue)

\* The attribute changes and a mutation record is queued if an observer
\* watches the name.  The record's oldValue is null: observe() is not given
\* attributeOldValue.  The field changed of a record is not the platform's:
\* it keeps whether the mutation changed the text, for the properties that
\* speak of it.
MutateAttribute(S, e, name, value) ==
  [S EXCEPT !.attrs[e][name] = value,
            !.records = IF <<e, name>> \in Range(S.observers)
                        THEN Append(@, [e |-> e, name |-> name, oldValue |-> Null,
                                        changed |-> S.attrs[e][name] # value])
                        ELSE @]

\* element.setAttribute(name, value) and, with Null, element.removeAttribute:
\* the mutation, and for an observed attribute of a constructed custom element
\* the reaction, which runs before the call returns
SetAttribute(S, e, name, value) ==
  IF e \in constructed /\ name \in platformObserved[ClassOf(e)]
  THEN CustomElementReaction(MutateAttribute(S, e, name, value), e, name,
                             S.attrs[e][name], value)
  ELSE MutateAttribute(S, e, name, value)

(***************************************************************************)
(* The accessors the decorators return.                                    *)
(***************************************************************************)
Threw(S) == [S EXCEPT !.trace.threw = TRUE]

\* this.setAttribute(attrName, text) as a decorator's setter calls it
ReflectAttribute(S, e, name, text) ==
  SetAttribute([S EXCEPT !.trace.attrWrites = Append(@, [e |-> e, name |-> name, text |-> text])],
               e, name, text)

\* if (isReflectiveAttribute) this.setAttribute(attrName, stringify(newValue))
ReflectIfReflective(S, e, m, newValue) ==
  IF IsReflective(ClassOf(e), m)
  THEN ReflectAttribute(S, e, AttrNameOf(m), Stringify(TransformerOf(ClassOf(e), m), newValue))
  ELSE S

\* the statements of set(input) of @attr after const newValue = validate(input):
\* a throw of validate leaves the setter, else store, reflect, publish
AttrSetValidated(S, e, m, newValue) ==
  IF IsThrow(newValue) THEN Threw(S)
  ELSE Publish(ReflectIfReflective(SetCall(S, e, m, newValue), e, m, newValue), e)

\* AttrSet with the store ahead of the validation
AttrSetStoreFirst(S, e, m, input) ==
  AttrSetValidated(SetCall(S, e, m, input), e, m,
                   Validate(TransformerOf(ClassOf(e), m), input))

\* AttrSet that returns early when the validated input is the stored value
AttrSetDeduped(S, e, m, input) ==
  IF Validate(TransformerOf(ClassOf(e), m), input) = S.store[e][m] THEN S
  ELSE AttrSetValidated(S, e, m, Validate(TransformerOf(ClassOf(e), m), input))

\* set(input) of the accessor @attr returns (the MutationObserver versions and
\* the attributeChangedCallback version differ in how Publish delivers)
AttrSet(S, e, m, input) ==
  AttrSetValidated(S, e, m, Validate(TransformerOf(ClassOf(e), m), input))

\* the statements of set(input) of @prop after validate
PropSetValidated(S, e, m, newValue) ==
  IF IsThrow(newValue) THEN Threw(S) ELSE Publish(SetCall(S, e, m, newValue), e)

\* set(input) of the accessor @prop returns
PropSet(S, e, m, input) ==
  PropSetValidated(S, e, m, Validate(TransformerOf(ClassOf(e), m), input))

\* the statements of set(input) of part_003 after input = validate(input): the
\* value lives behind a symbol key, the attribute text is computed before the
\* test of isReactiveAttribute
AttrSetMetaValidated(S, e, m, validated) ==
  IF IsThrow(validated) THEN Threw(S)
  ELSE Publish(ReflectIfReflective(SetCall(S, e, m, validated), e, m, validated), e)

\* set(input) of the accessor @attr of part_003 returns
AttrSetMeta(S, e, m, input) ==
  AttrSetMetaValidated(S, e, m, Validate(TransformerOf(ClassOf(e), m), input))

\* set(input) of the accessor @attribute of part_004 returns: no validation,
\* no notification
AttributeSet(S, e, m, input) ==
  ReflectAttribute(SetCall(S, e, m, input), e, m, Str(ToStringText(input)))

\* the setter of member m in the running version
AccessorSet(S, e, m, input) ==
  CASE variant = "proto" -> AttributeSet(S, e, m, input)
    [] variant = "meta" -> AttrSetMeta(S, e, m, input)
    [] OTHER -> IF Decl(ClassOf(e), m).kind = "prop"
                THEN PropSet(S, e, m, input)
                ELSE AttrSet(S, e, m, input)

\* The body of a @reactive method.  The methods of the examples render: they
\* read the accessors and assign nothing.  The decorator takes any method; where
\* reactionWrites holds, the method of B also assigns its accessor p, as a
\* method that normalises its element's state does.
ReactionBody(S, e) ==
  IF reactionWrites /\ variant = "batch" /\ ClassOf(e) = "B"
  THEN AccessorSet(S, e, "p", Num(100))
  ELSE S

\* value.call(this): the method starts on the state as it is now
CallReactive(S, e, cause, source) ==
  ReactionBody(
    [S EXCEPT !.trace.calls = Append(@, [e |-> e, cause |-> cause, source |-> source,
                                         phase |-> S.trace.phase, seen |-> S.store[e]]),
              !.unseen = @ \ {e}],
    e)

\* return validate(input) of an init: a throw leaves the constructor
InitValidated(S, e, m, v) ==
  IF IsThrow(v) THEN Threw(S) ELSE [S EXCEPT !.store[e][m] = v]

\* return parse(attrValue) of an init
InitParsed(S, e, m) ==
  [CountParse(S) EXCEPT !.store[e][m] =
     Parse(TransformerOf(ClassOf(e), m), S.attrs[e][AttrNameOf(m)])]

\* AttrInit that takes the declared default whatever the attribute holds
AttrInitDefaultWins(S, e, m, input) ==
  InitValidated(S, e, m, Validate(TransformerOf(ClassOf(e), m), input))

\* AttrInit that hands the attribute's text to validate
AttrInitValidatesAttribute(S, e, m, input) ==
  IF S.attrs[e][AttrNameOf(m)] # Null
  THEN InitValidated(CountParse(S), e, m, Validate(TransformerOf(ClassOf(e), m), S.attrs[e][AttrNameOf(m)]))
  ELSE InitValidated(S, e, m, Validate(TransformerOf(ClassOf(e), m), input))

\* AttrInit that validates the declared default before it looks at the
\* attribute
AttrInitValidatesDefaultFirst(S, e, m, input) ==
  IF IsThrow(Validate(TransformerOf(ClassOf(e), m), input)) THEN Threw(S)
  ELSE IF S.attrs[e][AttrNameOf(m)] # Null THEN InitParsed(S, e, m)
  ELSE InitValidated(S, e, m, Validate(TransformerOf(ClassOf(e), m), input))

\* init(input) of the accessor @attr returns
AttrInit(S, e, m, input) ==
  IF S.attrs[e][AttrNameOf(m)] # Null
  THEN InitParsed(S, e, m)
  ELSE InitValidated(S, e, m, Validate(TransformerOf(ClassOf(e), m), input))

\* init(input) of the accessor @prop returns
PropInit(S, e, m, input) ==
  InitValidated(S, e, m, Validate(TransformerOf(ClassOf(e), m), input))

\* this[key] = validate(input); dispatchEvent of the init of part_003
InitValidatedMeta(S, e, m, v) ==
  IF IsThrow(v) THEN Threw(S) ELSE Publish([S EXCEPT !.store[e][m] = v], e)

\* init(input) of part_003: stores behind the key and dispatches at once
AttrInitMeta(S, e, m, input) ==
  IF S.attrs[e][AttrNameOf(m)] # Null
  THEN Publish(InitParsed(S, e, m), e)
  ELSE InitValidatedMeta(S, e, m, Validate(TransformerOf(ClassOf(e), m), input))

\* init(input) of part_004: the default is stored as it is
AttributeInit(S, e, m, input) ==
  IF S.attrs[e][AttrNameOf(m)] # Null
  THEN InitParsed(S, e, m)
  ELSE [S EXCEPT !.store[e][m] = input]

\* the init of member m in the running version, given the declared default
AccessorInit(S, e, m) ==
  CASE variant = "proto" -> AttributeInit(S, e, m, Decl(ClassOf(e), m).default)
    [] variant = "meta" -> AttrInitMeta(S, e, m, Decl(ClassOf(e), m).default)
    [] OTHER -> IF Decl(ClassOf(e), m).kind = "prop"
                THEN PropInit(S, e, m, Decl(ClassOf(e), m).default)
                ELSE AttrInit(S, e, m, Decl(ClassOf(e), m).default)

(***************************************************************************)
(* The initializers the decorators add with context.addInitializer.        *)
(***************************************************************************)
\* ObserveInitializer without the test of the option reflective
ObserveInitializerAlways(S, e, m) == [S EXCEPT !.observers = Append(@, <<e, m>>)]

\* new MutationObserver(...).observe(this, { attributes, attributeFilter })
ObserveInitializer(S, e, m) ==
  IF IsReflective(ClassOf(e), m) THEN [S EXCEPT !.observers = Append(@, <<e, m>>)] ELSE S

\* HandlerInitializer that leaves a name alone once a handler is filed under it
HandlerInitializerKeepsFirst(S, e, m) ==
  IF ~IsReflective(ClassOf(e), m) \/ AttrNameOf(m) \in DOMAIN S.handlers[e] THEN S
  ELSE [S EXCEPT !.handlers[e] =
          [n \in (DOMAIN @) \cup {AttrNameOf(m)} |-> IF n = AttrNameOf(m) THEN m ELSE @[n]]]

\* the initializer that files changeHandler under the attribute's name
HandlerInitializer(S, e, m) ==
  IF ~IsReflective(ClassOf(e), m) THEN S
  ELSE [S EXCEPT !.handlers[e] =
          [n \in (DOMAIN @) \cup {AttrNameOf(m)} |-> IF n = AttrNameOf(m) THEN m ELSE @[n]]]

\* the initializer of part_003 and part_004: the first entry of a class is
\* written as the object literal { attrName: ... }, whose key is the word
\* attrName and not the attribute's name
MetadataInitializer(S, e, m) ==
  IF ~IsReflective(ClassOf(e), m) THEN S
  ELSE IF DOMAIN S.metadata[ClassOf(e)] = {}
    THEN [S EXCEPT !.metadata[ClassOf(e)] = [n \in {"attrName"} |-> m]]
  ELSE [S EXCEPT !.metadata[ClassOf(e)] =
          [n \in (DOMAIN @) \cup {AttrNameOf(m)} |-> IF n = AttrNameOf(m) THEN m ELSE @[n]]]

\* the initializer of the member's accessor decorator in the running version
AccessorInitializer(S, e, m) ==
  CASE Decl(ClassOf(e), m).kind = "prop" -> S
    [] variant \in {"batch", "mosync"} -> ObserveInitializer(S, e, m)
    [] variant = "acb" -> HandlerInitializer(S, e, m)
    [] OTHER -> MetadataInitializer(S, e, m)

\* ReactiveInitializer with the first call made at once
ReactiveInitializerEager(S, e) ==
  [CallReactive(S, e, "initial", "none") EXCEPT !.listeners = Append(@, e)]

\* the initializer @reactive adds: a deferred first call and a bus listener;
\* part_003 adds the listener only
ReactiveInitializer(S, e) ==
  [S EXCEPT !.frames = IF variant = "meta" THEN @ ELSE Append(@, [kind |-> "initial", e |-> e]),
            !.listeners = Append(@, e)]

\* a + b and a - b of JavaScript on the values the accessors hold
Plus(a, b) == IF IsNum(a) /\ IsNum(b) THEN Num(a.h + b.h) ELSE NaN

Minus(a, b) == IF IsNum(a) /\ IsNum(b) THEN Num(a.h - b.h) ELSE NaN

\* the @handle methods of the counter: this.value += this.step and
\* this.value -= this.step
Increment(S, e) == AccessorSet(S, e, "value", Plus(S.store[e]["value"], S.store[e]["step"]))

Decrement(S, e) == AccessorSet(S, e, "value", Minus(S.store[e]["value"], S.store[e]["step"]))

\* value.call(this, evt) of a @handle method
CallHandler(S, e, method) ==
  IF method = "increment"
  THEN Increment([S EXCEPT !.trace.handled = Append(@, method)], e)
  ELSE Decrement([S EXCEPT !.trace.handled = Append(@, method)], e)

\* evt.target.closest(selector) in the batching version of src/lib/decorators.ts,
\* evt.target.matches(selector) in the others: the target itself matches, or
\* for closest one of its ancestors does
TargetPasses(target, selector) ==
  selector \in (IF variant = "batch" THEN target.self \cup target.within ELSE target.self)

\* ShadowListener that calls the method whatever the target
ShadowListenerUnfiltered(S, e, h, target) == CallHandler(S, e, h.method)

\* the listener a @handle initializer adds, run for an event on target
ShadowListener(S, e, h, target) ==
  IF h.selector = "" THEN CallHandler(S, e, h.method)
  ELSE IF target.html /\ TargetPasses(target, h.selector) THEN CallHandler(S, e, h.method)
  ELSE S

\* the shadow root dispatches an event to its listeners, in the order added
RECURSIVE DispatchToShadow(_, _, _, _)
DispatchToShadow(S, e, hs, target) ==
  IF hs = <<>> THEN S
  ELSE DispatchToShadow(ShadowListener(S, e, Head(hs), target), e, Tail(hs), target)

\* HandleInitializer without the test for the shadow root
HandleInitializerUnchecked(S, e, h) == [S EXCEPT !.shadow[e] = Append(@, h)]

\* the initializer @handle adds: it throws when the element has no shadow
\* root, and else adds a listener to the shadow root
HandleInitializer(S, e, h) ==
  IF ~shadowRoot[e] THEN Threw(S) ELSE [S EXCEPT !.shadow[e] = Append(@, h)]

\* ObserveRecord that assigns through the accessor's setter, which reflects
ObserveRecordThroughSetter(S, e, m, record) ==
  IF S.attrs[e][m] # record.oldValue
  THEN AttrSet(CountParse(S), e, m, Parse(TransformerOf(ClassOf(e), m), S.attrs[e][m]))
  ELSE S

\* the body of the loop over the records: the attribute is read as it is now
ObserveRecord(S, e, m, record) ==
  IF S.attrs[e][m] # record.oldValue
  THEN Publish(SetCall(CountParse(S), e, m,
                       Parse(TransformerOf(ClassOf(e), m), S.attrs[e][m])), e)
  ELSE S

\* the callback given to new MutationObserver, run for one observer's records
RECURSIVE ObserverCallback(_, _, _, _)
ObserverCallback(S, e, m, rs) ==
  IF rs = <<>> THEN S
  ELSE ObserverCallback(ObserveRecord(S, e, m, Head(rs)), e, m, Tail(rs))

(***************************************************************************)
(* The platform: class definition, construction and upgrade, the microtask *)
(* that delivers mutation records, and the animation frame.                *)
(***************************************************************************)
\* the static getter observedAttributes of a defined class, given the
\* module-level set: @define of the attributeChangedCallback version and of
\* part_003 prepend the class's own list, @define of part_004 does not, and
\* the MutationObserver versions leave the class's own list alone
ObservedAttributesOf(c, observable) ==
  CASE variant \in {"acb", "meta"} -> OriginalObserved(c) \cup observable
    [] variant = "proto" -> observable
    [] OTHER -> OriginalObserved(c)

ObservedAttributes(c) == ObservedAttributesOf(c, observableAttributes)

\* the names the accessor decorators of a class add to the module-level set
\* when they are applied
DeclaredObservable(c) ==
  IF variant \in {"acb", "meta", "proto"}
  THEN {AttrNameOf(m) : m \in {n \in Members(c) : IsReflective(c, n)}}
  ELSE {}

RECURSIVE RunAccessorInitializers(_, _, _)
RunAccessorInitializers(S, e, ms) ==
  IF ms = <<>> THEN S
  ELSE RunAccessorInitializers(AccessorInitializer(S, e, Head(ms)), e, Tail(ms))

\* the initializers of the @handle methods; a throw leaves the constructor
RECURSIVE RunHandleInitializers(_, _, _)
RunHandleInitializers(S, e, hs) ==
  IF hs = <<>> \/ S.trace.threw THEN S
  ELSE RunHandleInitializers(HandleInitializer(S, e, Head(hs)), e, Tail(hs))

\* the initializer of the @reactive method, if the class has one
RunReactiveInitializer(S, e) ==
  IF HasReactive(ClassOf(e)) /\ ~S.trace.threw THEN ReactiveInitializer(S, e) ELSE S

\* the initializers of the methods, in declaration order: the @handle methods,
\* then the @reactive method
RunMethodInitializers(S, e) ==
  RunReactiveInitializer(RunHandleInitializers(S, e, HandleDecls(ClassOf(e))), e)

RECURSIVE RunAccessorInits(_, _, _)
RunAccessorInits(S, e, ms) ==
  IF ms = <<>> \/ S.trace.threw THEN S
  ELSE RunAccessorInits(AccessorInit(S, e, Head(ms)), e, Tail(ms))

\* new C(): the initializers added by the decorators run first, in declaration
\* order (the accessors, then the @reactive method), then each accessor's init
OwnConstructor(S, e) ==
  RunAccessorInits(
    RunMethodInitializers(RunAccessorInitializers(S, e, OwnMembers(ClassOf(e))), e),
    e, OwnMembers(ClassOf(e)))

\* the constructor of the ancestor, which runs first: the initializers and
\* inits of the accessors it declares
BaseConstructor(S, e) ==
  RunAccessorInits(RunAccessorInitializers(S, e, BaseMembers(ClassOf(e))),
                   e, BaseMembers(ClassOf(e)))

Constructor(S, e) == OwnConstructor(BaseConstructor(S, e), e)

\* what a constructor leaves: when it throws, no instance comes to be, and
\* what its initializers did concerns an object nothing refers to
ConstructorOutcome(S0, S) == IF S.trace.threw THEN Threw(S0) ELSE S

\* the attributes of an element, in the order the platform walks them
AttrOrder(e) ==
  IF e = "a"
  THEN IF variant \in {"batch", "mosync"} THEN <<"value", "step">>
       ELSE IF CarriesForeign THEN <<"value", "step", "x", "y">>
       ELSE <<"value", "step", "x">>
  ELSE IF variant = "batch" THEN <<>>
  ELSE <<"y">>

\* the report of one attribute of an upgraded element
UpgradeAttribute(S, e, name) ==
  IF S.attrs[e][name] # Null /\ name \in platformObserved[ClassOf(e)]
  THEN CustomElementReaction(S, e, name, Null, S.attrs[e][name])
  ELSE S

\* after the constructor of an upgraded element returns, the platform reports
\* every observed attribute the element carries with oldValue null
RECURSIVE Upgrade(_, _, _)
Upgrade(S, e, names) ==
  IF names = <<>> THEN S
  ELSE Upgrade(UpgradeAttribute(S, e, Head(names)), e, Tail(names))

\* the upgrade of an element whose constructor has returned S
UpgradeConstructed(S, e) ==
  IF S.trace.threw THEN S
  ELSE Upgrade([S EXCEPT !.trace.phase = "upgrade"], e, AttrOrder(e))

\* the records of one observer, in order
RecordsOf(rs, e, m) == SelectSeq(rs, LAMBDA r : r.e = e /\ r.name = m)

\* one observer's callback, if it has records
NotifyObserver(S, e, m, mine) ==
  IF mine = <<>> THEN S ELSE ObserverCallback(S, e, m, mine)

\* notify mutation observers: each observer's callback gets its records
RECURSIVE NotifyObservers(_, _, _)
NotifyObservers(S, os, rs) ==
  IF os = <<>> THEN S
  ELSE NotifyObservers(
         NotifyObserver(S, Head(os)[1], Head(os)[2], RecordsOf(rs, Head(os)[1], Head(os)[2])),
         Tail(os), rs)

\* one callback of a frame
FrameCallback(S, cb) ==
  IF cb.kind = "flush" THEN FlushReactivity(S) ELSE CallReactive(S, cb.e, "initial", "none")

\* run the callbacks of one animation frame, in the order they were requested
RECURSIVE RunFrame(_, _)
RunFrame(S, cbs) ==
  IF cbs = <<>> THEN S ELSE RunFrame(FrameCallback(S, Head(cbs)), Tail(cbs))

(***************************************************************************)
(* @debounce.  The decorator's init returns a function that keeps one      *)
(* timer: a call clears the pending timeout and sets a new one, whose      *)
(* callback forgets the handle and calls the wrapped function with the     *)
(* arguments of the call that set it.  W is the closure and the window:    *)
(* [handle, timers, funcCalls]; timer ids are positive, and the handle 0    *)
(* is the undefined one.                                                   *)
(***************************************************************************)
\* window.clearTimeout(handle)
ClearTimeout(W, id) == [W EXCEPT !.timers = {t \in @ : t.id # id}]

\* handle = window.setTimeout(callback, time): the timeout is due time ticks
\* from now and carries the arguments its callback closes over
SetTimeout(W, id, now, args) ==
  [W EXCEPT !.timers = @ \cup {[id |-> id, due |-> now + time, args |-> args]},
            !.handle = id]

\* DebouncedFunction that does not clear the pending timeout
DebouncedFunctionKeepsTimeout(W, id, now, args) == SetTimeout(W, id, now, args)

\* DebouncedFunction that calls the wrapped function at once when no timeout
\* is pending
DebouncedFunctionLeadingEdge(W, id, now, args) ==
  SetTimeout(IF W.handle # 0 THEN ClearTimeout(W, W.handle)
             ELSE [W EXCEPT !.funcCalls = Append(@, [at |-> now, args |-> args])],
             id, now, args)

\* the function init returns, called with args
DebouncedFunction(W, id, now, args) ==
  SetTimeout(IF W.handle # 0 THEN ClearTimeout(W, W.handle) ELSE W, id, now, args)

\* the callback of the timeout t: handle = undefined; func(...args)
TimeoutCallback(W, t, now) ==
  [W EXCEPT !.handle = 0,
            !.funcCalls = Append(@, [at |-> now, args |-> t.args])]

(***************************************************************************)
(* Inputs.                                                                 *)
(***************************************************************************)
\* what program code assigns to an accessor, by member: 2 and 9001 to value
\* (the second is out of its range), 2, 2.5 and undefined to step, 2 to y,
\* 0 to p
InputsFor(m) ==
  CASE m = "value" -> {Num(4), Num(18002)}
    [] m = "step" -> {Num(4), Num(5), Undefined}
    [] m = "y" -> IF scenario = "parseOnly" THEN {Num(4), Num(202), Undefined} ELSE {Num(4)}
    [] m = "p" -> IF scenario = "parseOnly" THEN {Num(0), Num(202), Undefined} ELSE {Num(0)}
    [] m = "yBase" -> {}

\* what markup or a script writes into an attribute, by name, and Null to
\* remove it: "9001" into value, "2.5" and "abc" into step, "2" into x and y
TextsFor(name) ==
  CASE name = "value" -> {Str(<<"9", "0", "0", "1">>), Null}
    [] name = "step" -> {Str(<<"2", ".", "5">>), Str(<<"a", "b", "c">>), Null}
    [] OTHER -> {Str(<<"2">>), Null}

\* no write to a since the last frame
NoLastWrite == [m |-> "none", value |-> Undefined]

\* the last step: its kind, the instance and the member or attribute it acted
\* on, its argument, and whether the argument is what was there before (for
\* a set: the validated input is the stored value; for an attribute: the text
\* is the attribute's text)
Op(name, e, m, arg, same) == [name |-> name, e |-> e, m |-> m, arg |-> arg, same |-> same]

(***************************************************************************)
(* The state machine.                                                      *)
(***************************************************************************)
\* the page declares the example classes as the repository has them, and its
\* tree holds on to every instance
Examples == scenario = "examples" /\ released = {}

\* the state of the elements and of the bus before any class is defined
Start ==
  /\ variant \in Variants
  /\ defined = {}
  /\ registered = {}
  /\ observableAttributes = {}
  /\ platformObserved = [c \in Classes |-> {}]
  /\ constructed = {}
  /\ store = [e \in Elems |-> [m \in Members(ClassOf(e)) |-> Undefined]]
  /\ attrs = [e \in Elems |-> [n \in AttrNames(e) |-> Null]]
  /\ attributeChangedHandlers = [e \in Elems |-> [n \in {} |-> "none"]]
  /\ attributeMetadata = [c \in Classes |-> [n \in {} |-> "none"]]
  /\ observers = <<>>
  /\ records = <<>>
  /\ listeners = <<>>
  /\ reactivityTargets = <<>>
  /\ reactivityDispatchHandle = "null"
  /\ frameRequests = <<>>
  /\ op = Op("none", "none", "none", Undefined, FALSE)
  /\ trace = EmptyTrace("none")
  /\ lastWrite = NoLastWrite
  /\ unseen = {}
  /\ shadowListeners = [e \in Elems |-> <<>>]

\* no debounced function has been called: @debounce(50) of the scroll-progress
\* element, with a clock that ticks every 10 ms
NoTimers ==
  /\ debounceHandle = 0
  /\ other = [handle |-> 0, wrapperCalls |-> <<>>, funcCalls |-> <<>>]
  /\ timers = {}
  /\ clock = 0
  /\ wrapperCalls = <<>>
  /\ funcCalls = <<>>

\* no transformer is used outside the decorators
NoCall == [value |-> Undefined, result |-> Undefined, called |-> FALSE]

\* no value has made the trip through stringify and parse
NoTrip == [value |-> Undefined, text |-> Undefined, result |-> Undefined, called |-> FALSE]

NoParse ==
  /\ transformer = int(0, 9000)
  /\ parsed = NoCall
  /\ validation = NoCall
  /\ stringified = NoTrip

\* the @reactive methods are those of the examples: they render, and assign
\* nothing
\* every instance has its shadow root when its initializers run
AllShadowed == shadowRoot = [e \in Elems |-> TRUE]

Init == Examples /\ Start /\ reactionWrites = FALSE /\ AllShadowed /\ NoTimers /\ NoParse /\ time = 5

(***************************************************************************)
(* The evaluation of a class definition.  The member decorators are        *)
(* applied in declaration order, then the class decorator @define; the     *)
(* class initializer that @define added runs last.  A decorator that       *)
(* throws ends the evaluation.  D is the state the definition works on:    *)
(* the module-level set, the registry, and the names of the members whose  *)
(* decorators have returned.                                               *)
(***************************************************************************)
CurD ==
  [observable |-> observableAttributes, registered |-> registered,
   observed |-> platformObserved, applied |-> {}, trace |-> EmptyTrace("define")]

CommitD(D) ==
  /\ observableAttributes' = D.observable
  /\ registered' = D.registered
  /\ platformObserved' = D.observed
  /\ trace' = D.trace

\* the context the decorators of the example classes are called with: public
\* accessors with string names
ContextOf(m) == [kind |-> "accessor", symbol |-> FALSE, private |-> FALSE, name |-> m]

\* what @attr does once its checks have passed: the versions with a
\* module-level set add the name of a reflective attribute, and every
\* version adds an initializer for one
AttrRegistered(D, name, reflective) ==
  [D EXCEPT !.observable =
              IF reflective /\ variant \in {"acb", "meta", "proto"} THEN @ \cup {name} ELSE @,
            !.trace.initializers = IF reflective THEN Append(@, name) ELSE @,
            !.applied = @ \cup {name}]

\* @attr that registers before it checks
AttrDecoratorRegistersFirst(D, context, reflective) ==
  IF context.kind # "accessor" THEN Threw(AttrRegistered(D, context.name, reflective))
  ELSE IF context.symbol THEN Threw(AttrRegistered(D, context.name, reflective))
  ELSE IF context.private /\ variant \in {"batch", "acb", "mosync"}
  THEN Threw(AttrRegistered(D, context.name, reflective))
  ELSE AttrRegistered(D, context.name, reflective)

\* the decorator function @attr returns, applied to a member: it throws a
\* TypeError for a member that is no accessor, for a symbol name and (in the
\* versions that look) for a private member
AttrDecorator(D, context, reflective) ==
  IF context.kind # "accessor" THEN Threw(D)
  ELSE IF context.symbol THEN Threw(D)
  ELSE IF context.private /\ variant \in {"batch", "acb", "mosync"} THEN Threw(D)
  ELSE AttrRegistered(D, context.name, reflective)

\* the decorator of a member of an example class
DecorateMember(D, c, m) ==
  IF Decl(c, m).kind = "attr"
  THEN AttrDecorator(D, ContextOf(AttrNameOf(m)), IsReflective(c, m))
  ELSE [D EXCEPT !.applied = @ \cup {m}]

RECURSIVE ApplyDecorators(_, _, _)
ApplyDecorators(D, c, ms) ==
  IF ms = <<>> \/ D.trace.threw THEN D
  ELSE ApplyDecorators(DecorateMember(D, c, Head(ms)), c, Tail(ms))

\* what the registry reads when a class is defined: its observedAttributes
ObservedAtDefine(D, c) ==
  IF c \in Classes
  THEN [D.observed EXCEPT ![c] = ObservedAttributesOf(c, D.observable)]
  ELSE D.observed

\* window.customElements.define(tagName, this); a tag that is taken makes it
\* throw
CustomElementsDefine(D, c, tag) ==
  IF tag \in D.registered
  THEN Threw([D EXCEPT !.trace.defines = Append(@, [tag |-> tag, applied |-> D.applied])])
  ELSE [D EXCEPT !.registered = @ \cup {tag},
                 !.observed = ObservedAtDefine(D, c),
                 !.trace.defines = Append(@, [tag |-> tag, applied |-> D.applied])]

\* a class initializer that defines without looking
DefineInitializerUnguarded(D, c, tag) == CustomElementsDefine(D, c, tag)

\* the class initializer @define adds:
\* window.customElements.get(tagName) ?? window.customElements.define(tagName, this)
DefineInitializer(D, c, tag) ==
  IF tag \in D.registered THEN D ELSE CustomElementsDefine(D, c, tag)

\* the class initializers run once every decorator has returned
RunClassInitializers(D, c, tag) ==
  IF D.trace.threw THEN D ELSE DefineInitializer(D, c, tag)

\* The class definition is evaluated: the accessor decorators are applied and
\* add their names to the module-level set, @define is applied, and its class
\* initializer registers the tag unless it is registered already; the registry
\* reads observedAttributes once, at that moment.
DefineClass(c) ==
  /\ c \notin defined
  /\ defined' = defined \cup {c}
  /\ CommitD(RunClassInitializers(ApplyDecorators(CurD, c, MemberOrder(c)), c, TagOf(c)))
  /\ op' = Op("define", "none", c, Undefined, FALSE)
  /\ UNCHANGED <<elsewhere, variant, constructed, store, attrs, attributeChangedHandlers,
                 attributeMetadata, observers, records, listeners, reactivityTargets,
                 reactivityDispatchHandle, frameRequests, lastWrite, unseen,
                 shadowListeners>>

\* the member contexts a decorator can be called with
Contexts ==
  [kind : {"accessor", "method", "field"}, symbol : BOOLEAN, private : BOOLEAN,
   name : {"w"}]

\* A script evaluates the definition of another element class, tagged
\* other-element: an accessor z under @attr, then a member w under @attr, and
\* @define on the class.  The script may be evaluated again (a second copy of
\* the bundle): the decorators run again, on a new class.
DefineOther(context) ==
  /\ CommitD(RunClassInitializers(
               AttrDecorator(AttrDecorator(CurD, ContextOf("z"), TRUE), context, TRUE),
               "Other", "other-element"))
  /\ op' = Op("define", "none", "Other", context, FALSE)
  /\ UNCHANGED <<elsewhere, variant, defined, constructed, store, attrs,
                 attributeChangedHandlers, attributeMetadata, observers, records,
                 listeners, reactivityTargets, reactivityDispatchHandle, frameRequests,
                 lastWrite, unseen, shadowListeners>>

\* the step's handlers are done: their state is the next state, unless more
\* mutation records wait than the model keeps
CommitBounded(S) == Len(S.records) <= MaxRecords /\ Commit(S)

\* the arguments a debounced function is called with
Args == {"a", "b", "c"}

\* the debounced function is called at most this many times
MaxCalls == 3

\* the clock stops here
MaxClock == 8

\* the closure of the debounced function and the window's timers
CurW == [handle |-> debounceHandle, timers |-> timers, funcCalls |-> funcCalls]

CommitW(W) ==
  /\ debounceHandle' = W.handle
  /\ timers' = W.timers
  /\ funcCalls' = W.funcCalls

\* a timeout is due: its task runs before anything else happens at this time
TimeoutDue == \E t \in timers : t.due <= clock

\* The debounced function is called with args; the timeout it sets gets the
\* number of the call as its id.
CallDebounced(args) ==
  /\ Len(wrapperCalls) < MaxCalls
  /\ ~TimeoutDue
  /\ CommitW(DebouncedFunction(CurW, Len(wrapperCalls) + 1, clock, args))
  /\ wrapperCalls' = Append(wrapperCalls, [at |-> clock, args |-> args])
  /\ UNCHANGED <<page, parseVars, scenario, released, reactionWrites, time, clock, other>>

\* the timeouts of the second debounced function have the ids above those of
\* the first
OwnedByOther(t) == t.id > MaxCalls

\* A timeout that is due fires: the window drops it and runs its callback.
TimerFires(t) ==
  /\ t.due <= clock
  /\ ~OwnedByOther(t)
  /\ CommitW(TimeoutCallback([CurW EXCEPT !.timers = @ \ {t}], t, clock))
  /\ UNCHANGED <<page, parseVars, scenario, released, reactionWrites, time, clock, wrapperCalls, other>>

\* Time passes, unless a timeout is due.
Elapse ==
  /\ clock < MaxClock
  /\ ~TimeoutDue
  /\ clock' = clock + 1
  /\ UNCHANGED <<page, parseVars, scenario, released, reactionWrites, time, debounceHandle, timers, wrapperCalls, funcCalls, other>>

\* the second debounced function is called at most this many times
MaxOtherCalls == 2

\* the arguments the second debounced function is called with
OtherArgs == {"z"}

\* OtherW with the handle of the first debounced function: one handle for all
\* the functions the decorator makes
OtherWSharedHandle ==
  [handle |-> debounceHandle, timers |-> timers, funcCalls |-> other.funcCalls]

\* the closure of the second debounced function, made by another call of
\* init (for another instance, or another field), and the window's timers
OtherW == [handle |-> other.handle, timers |-> timers, funcCalls |-> other.funcCalls]

CommitOther(W, calls) ==
  /\ other' = [handle |-> W.handle, wrapperCalls |-> calls, funcCalls |-> W.funcCalls]
  /\ timers' = W.timers

\* The second debounced function is called with args.
CallOther(args) ==
  /\ Len(other.wrapperCalls) < MaxOtherCalls
  /\ ~TimeoutDue
  /\ CommitOther(DebouncedFunction(OtherW, MaxCalls + Len(other.wrapperCalls) + 1, clock, args),
                 Append(other.wrapperCalls, [at |-> clock, args |-> args]))
  /\ UNCHANGED <<page, parseVars, scenario, released, reactionWrites, time, clock,
                 debounceHandle, wrapperCalls, funcCalls>>

\* A timeout of the second debounced function fires.
OtherTimerFires(t) ==
  /\ t.due <= clock
  /\ OwnedByOther(t)
  /\ CommitOther(TimeoutCallback([OtherW EXCEPT !.timers = @ \ {t}], t, clock),
                 other.wrapperCalls)
  /\ UNCHANGED <<page, parseVars, scenario, released, reactionWrites, time, clock,
                 debounceHandle, wrapperCalls, funcCalls>>

\* An element of a defined class is constructed (created, or upgraded with the
\* attributes its markup gave it).
Construct(e) ==
  /\ ClassOf(e) \in defined
  /\ e \notin constructed
  /\ Commit(UpgradeConstructed(
              ConstructorOutcome(Cur("constructor"), Constructor(Cur("constructor"), e)), e))
  /\ constructed' = IF trace'.threw THEN constructed ELSE constructed \cup {e}
  /\ op' = Op("construct", e, "none", Undefined, FALSE)
  /\ UNCHANGED <<elsewhere, variant, defined, registered, observableAttributes, platformObserved,
                 lastWrite>>

\* Program code assigns input to the accessor m of e.
ProgrammaticSet(e, m, input) ==
  /\ e \in constructed
  /\ CommitBounded(AccessorSet(Cur("set"), e, m, input))
  /\ lastWrite' = IF trace'.threw \/ variant # "batch" \/ e # "a" THEN lastWrite
                  ELSE [m |-> m, value |-> Validate(TransformerOf(ClassOf(e), m), input)]
  /\ op' = Op("set", e, m, input,
              store[e][m] = (IF variant = "proto" THEN input
                             ELSE Validate(TransformerOf(ClassOf(e), m), input)))
  /\ UNCHANGED <<elsewhere, variant, defined, registered, observableAttributes, platformObserved,
                 constructed>>

\* Markup or a script outside the decorators sets or removes an attribute.
ExternalSetAttribute(e, name, value) ==
  /\ value # Null \/ attrs[e][name] # Null
  /\ CommitBounded(SetAttribute(Cur("attribute"), e, name, value))
  /\ lastWrite' = IF e = "a" /\ name = lastWrite.m THEN NoLastWrite ELSE lastWrite
  /\ op' = Op("attribute", e, name, value, attrs[e][name] = value)
  /\ UNCHANGED <<elsewhere, variant, defined, registered, observableAttributes, platformObserved,
                 constructed>>

\* what a click inside a shadow root can hit: the plus button, the minus
\* button, an element outside both, an HTML element inside the plus button,
\* and an SVG element inside the minus button
Targets ==
  {[name |-> "plus", html |-> TRUE, self |-> {"button.plus"}, within |-> {}],
   [name |-> "minus", html |-> TRUE, self |-> {"button.minus"}, within |-> {}],
   [name |-> "other", html |-> TRUE, self |-> {}, within |-> {}],
   [name |-> "inPlus", html |-> TRUE, self |-> {}, within |-> {"button.plus"}],
   [name |-> "svgInMinus", html |-> FALSE, self |-> {}, within |-> {"button.minus"}]}

\* clicks count the counter up to this value
MaxCount == 3

\* A click inside the shadow root of e hits target: the shadow root's
\* listeners run.
Click(e, target) ==
  /\ e \in constructed
  /\ shadowListeners[e] # <<>>
  /\ Le(store[e]["value"], Num(2 * MaxCount))
  /\ CommitBounded(DispatchToShadow(Cur("click"), e, shadowListeners[e], target))
  /\ lastWrite' = IF variant = "batch" /\ e = "a" /\ store'[e] # store[e]
                  THEN [m |-> "value", value |-> store'[e]["value"]]
                  ELSE lastWrite
  /\ op' = Op("click", e, target.name, target, FALSE)
  /\ UNCHANGED <<elsewhere, variant, defined, registered, observableAttributes,
                 platformObserved, constructed>>

\* The running task ends: the microtask checkpoint delivers the mutation
\* records to the observers.
DeliverMutations ==
  /\ records # <<>>
  /\ Commit(NotifyObservers([Cur("mutation") EXCEPT !.records = <<>>], observers, records))
  /\ op' = Op("mutation", "none", "none", Undefined, FALSE)
  /\ UNCHANGED <<elsewhere, variant, defined, registered, observableAttributes, platformObserved,
                 constructed, lastWrite>>

\* An animation frame runs the callbacks requested since the last one; no
\* frame starts while mutation records wait for their microtask.
Tick ==
  /\ frameRequests # <<>>
  /\ records = <<>>
  /\ Commit(RunFrame([Cur("frame") EXCEPT !.frames = <<>>], frameRequests))
  /\ lastWrite' = NoLastWrite
  /\ op' = Op("frame", "none", "none", Undefined, FALSE)
  /\ UNCHANGED <<elsewhere, variant, defined, registered, observableAttributes, platformObserved,
                 constructed>>

Next ==
  \/ \E c \in Classes : DefineClass(c)
  \/ \E e \in Elems : Construct(e)
  \/ \E e \in Elems : \E m \in Members(ClassOf(e)) : \E input \in InputsFor(m) :
       ProgrammaticSet(e, m, input)
  \/ \E e \in Elems : \E name \in AttrNames(e) : \E value \in TextsFor(name) :
       ExternalSetAttribute(e, name, value)
  \/ DeliverMutations
  \/ Tick

Spec == Init /\ [][Next]_vars

\* the batching version alone
InitBatch == Init /\ variant = "batch"

SpecBatch == InitBatch /\ [][Next]_vars

\* the two versions of src/lib/decorators.ts
InitLib == Init /\ variant \in {"batch", "acb"}

SpecLib == InitLib /\ [][Next]_vars

\* the two shapes of init: that of src/lib/decorators.ts and that of part_003
InitBatchMeta == Init /\ variant \in {"batch", "meta"}

SpecBatchMeta == InitBatchMeta /\ [][Next]_vars

\* the versions in which @define returns a subclass: no MutationObserver and
\* no deferred first call, so neither a microtask nor a frame has work
InitSubclass == Init /\ variant \in {"meta", "proto"}

NextSubclass ==
  \/ \E c \in Classes : DefineClass(c)
  \/ \E e \in Elems : Construct(e)
  \/ \E e \in Elems : \E m \in Members(ClassOf(e)) : \E input \in InputsFor(m) :
       ProgrammaticSet(e, m, input)
  \/ \E e \in Elems : \E name \in AttrNames(e) : \E value \in TextsFor(name) :
       ExternalSetAttribute(e, name, value)

SpecSubclass == InitSubclass /\ [][NextSubclass]_vars

\* the attributeChangedCallback version alone: it has no MutationObserver
InitAcb == Init /\ variant = "acb"

NextAcb ==
  \/ \E c \in Classes : DefineClass(c)
  \/ \E e \in Elems : Construct(e)
  \/ \E e \in Elems : \E m \in Members(ClassOf(e)) : \E input \in InputsFor(m) :
       ProgrammaticSet(e, m, input)
  \/ \E e \in Elems : \E name \in AttrNames(e) : \E value \in TextsFor(name) :
       ExternalSetAttribute(e, name, value)
  \/ Tick

SpecAcb == InitAcb /\ [][NextAcb]_vars

\* the two versions of src/lib/decorators.ts with clicks inside the shadow
\* root; the counter may lack its shadow root when its initializers run
InitHandle ==
  /\ Examples /\ Start /\ variant \in {"batch", "acb"} /\ reactionWrites = FALSE
  /\ shadowRoot \in {[e \in Elems |-> TRUE], [e \in Elems |-> e # "a"]}
  /\ NoTimers /\ NoParse /\ time = 5

\* the page is used by program code and by clicks; no markup or script
\* touches an attribute
NextHandle ==
  \/ \E c \in Classes : DefineClass(c)
  \/ \E e \in Elems : Construct(e)
  \/ \E e \in Elems : \E m \in Members(ClassOf(e)) : \E input \in InputsFor(m) :
       ProgrammaticSet(e, m, input)
  \/ \E e \in Elems : \E target \in Targets : Click(e, target)
  \/ DeliverMutations
  \/ Tick

SpecHandle == InitHandle /\ [][NextHandle]_vars

\* a debounced function alone, with a delay of 2 or of 5 ticks
Delays == {2, 5}

InitDebounce ==
  /\ Examples /\ Start /\ variant = "batch" /\ reactionWrites = FALSE /\ AllShadowed
  /\ NoTimers /\ NoParse /\ time \in Delays

NextDebounce ==
  \/ \E args \in Args : CallDebounced(args)
  \/ \E t \in timers : TimerFires(t)
  \/ Elapse

SpecDebounce == InitDebounce /\ [][NextDebounce]_vars

\* two debounced functions, of two instances or of two fields, with a delay
\* of 2 ticks; the first is called with a, the second with z
InitTwoDebounced ==
  /\ Examples /\ Start /\ variant = "batch" /\ reactionWrites = FALSE /\ AllShadowed
  /\ NoTimers /\ NoParse /\ time = 2

NextTwoDebounced ==
  \/ CallDebounced("a")
  \/ \E args \in OtherArgs : CallOther(args)
  \/ \E t \in timers : TimerFires(t)
  \/ \E t \in timers : OtherTimerFires(t)
  \/ Elapse

SpecTwoDebounced == InitTwoDebounced /\ [][NextTwoDebounced]_vars

\* the two versions of src/lib/decorators.ts on a page where a script defines
\* another element class, well-formed or not, any number of times; no markup
\* or script touches an attribute
InitDefine ==
  Examples /\ Start /\ variant \in {"batch", "acb"} /\ reactionWrites = FALSE /\ AllShadowed
    /\ NoTimers /\ NoParse /\ time = 5

NextDefine ==
  \/ \E c \in Classes : DefineClass(c)
  \/ \E context \in Contexts : DefineOther(context)
  \/ \E e \in Elems : Construct(e)
  \/ \E e \in Elems : \E m \in Members(ClassOf(e)) : \E input \in InputsFor(m) :
       ProgrammaticSet(e, m, input)
  \/ DeliverMutations
  \/ Tick

SpecDefine == InitDefine /\ [][NextDefine]_vars

\* the options min and max lie within this many halves of zero
MaxHalves == 5

\* the bounds a transformer is made with, in halves: whole and fractional
Bounds == (0 - MaxHalves)..MaxHalves

\* number({ min, max }) and int({ min, max }) for every pair of bounds with
\* min <= max
Transformers ==
  {tr \in [kind : {"number", "int"}, min : {Num(h) : h \in Bounds},
            max : {Num(h) : h \in Bounds}] : tr.min.h <= tr.max.h}

\* what parse is called with: numbers below, at, between and above the bounds,
\* attribute texts, null, and values that are no number
ParseInputs ==
  {Num(h) : h \in (0 - MaxHalves - 2)..(MaxHalves + 2)}
    \cup {Str(<<"2", ".", "5">>), Str(<<"-", "1">>), Str(<<" ", "7", " ">>), Str(<<>>),
          Str(<<"a", "b", "c">>), Null, Undefined, NaN}

\* transformer.parse(value) is called
ParseCall(value) ==
  /\ parsed' = [value |-> value, result |-> Parse(transformer, value), called |-> TRUE]
  /\ UNCHANGED <<page, reactionWrites, debounceVars, scenario, released, transformer,
                 validation, stringified>>

\* a transformer alone: nothing is defined or constructed
InitParse ==
  /\ Examples /\ Start /\ variant = "batch" /\ reactionWrites = FALSE /\ AllShadowed
  /\ NoTimers /\ time = 5
  /\ transformer \in Transformers
  /\ parsed = NoCall
  /\ validation = NoCall
  /\ stringified = NoTrip

NextParse == \E value \in ParseInputs : ParseCall(value)

SpecParse == InitParse /\ [][NextParse]_vars

\* transformer.validate(value) is called
ValidateCall(value) ==
  /\ validation' = [value |-> value, result |-> Validate(transformer, value), called |-> TRUE]
  /\ UNCHANGED <<page, reactionWrites, debounceVars, scenario, released, transformer,
                 parsed, stringified>>

\* the value validate returned last is turned into text and parsed back, as
\* a reflected value returns from its attribute
RoundTrip ==
  /\ validation.called /\ ~IsThrow(validation.result)
  /\ stringified' =
       [value |-> validation.result,
        text |-> Stringify(transformer, validation.result),
        result |-> Parse(transformer, Stringify(transformer, validation.result)),
        called |-> TRUE]
  /\ UNCHANGED <<page, reactionWrites, debounceVars, scenario, released, transformer,
                 parsed, validation>>

NextValidate ==
  \/ \E value \in ParseInputs : ValidateCall(value)
  \/ RoundTrip

\* a transformer alone, validating and reflecting
SpecValidate == InitParse /\ [][NextValidate]_vars

\* the two versions of src/lib/decorators.ts on a page that gives the accessor
\* of B a transformer of its own, with the parse of number({ min: 0, max: 100 })
\* and no validate; program code also assigns 101 and undefined
InitParseOnly ==
  /\ scenario = "parseOnly" /\ released = {}
  /\ Start /\ variant \in {"batch", "acb"} /\ reactionWrites = FALSE /\ AllShadowed
  /\ NoTimers /\ NoParse /\ time = 5

\* markup and scripts write the attributes of b only
NextParseOnly ==
  \/ \E c \in Classes : DefineClass(c)
  \/ \E e \in Elems : Construct(e)
  \/ \E e \in Elems : \E m \in Members(ClassOf(e)) : \E input \in InputsFor(m) :
       ProgrammaticSet(e, m, input)
  \/ \E name \in AttrNames("b") : \E value \in TextsFor(name) :
       ExternalSetAttribute("b", name, value)
  \/ DeliverMutations
  \/ Tick

SpecParseOnly == InitParseOnly /\ [][NextParseOnly]_vars

\* the versions that file one callback per attribute name, on a page where B
\* redeclares the accessor y of its ancestor
InitRedeclare ==
  /\ scenario = "redeclares" /\ released = {}
  /\ Start /\ variant \in {"acb", "meta"} /\ reactionWrites = FALSE /\ AllShadowed
  /\ NoTimers /\ NoParse /\ time = 5

\* markup and scripts write the attributes of b only
NextRedeclare ==
  \/ \E c \in Classes : DefineClass(c)
  \/ \E e \in Elems : Construct(e)
  \/ \E e \in Elems : \E m \in Members(ClassOf(e)) : \E input \in InputsFor(m) :
       ProgrammaticSet(e, m, input)
  \/ \E name \in AttrNames("b") : \E value \in TextsFor(name) :
       ExternalSetAttribute("b", name, value)
  \/ Tick

SpecRedeclare == InitRedeclare /\ [][NextRedeclare]_vars

\* the versions with a module-level set of names, on a page whose markup
\* gives the counter the attribute y of the other class
InitShared ==
  /\ scenario = "shared" /\ released = {}
  /\ Start /\ variant \in {"acb", "meta"} /\ reactionWrites = FALSE /\ AllShadowed
  /\ NoTimers /\ NoParse /\ time = 5

\* markup and scripts write the attribute y, of either element
NextShared ==
  \/ \E c \in Classes : DefineClass(c)
  \/ \E e \in Elems : Construct(e)
  \/ \E e \in Elems : \E m \in Members(ClassOf(e)) : \E input \in InputsFor(m) :
       ProgrammaticSet(e, m, input)
  \/ \E e \in Elems : \E value \in TextsFor("y") : ExternalSetAttribute(e, "y", value)
  \/ Tick

SpecShared == InitShared /\ [][NextShared]_vars

\* the versions whose @define wraps or extends attributeChangedCallback, on a
\* page whose counter class observes step itself and has a callback of its
\* own for it
InitOverlap ==
  /\ scenario = "overlaps" /\ released = {}
  /\ Start /\ variant \in {"acb", "meta"} /\ reactionWrites = FALSE /\ AllShadowed
  /\ NoTimers /\ NoParse /\ time = 5

\* program code, markup and scripts use the counter only
NextOverlap ==
  \/ \E c \in Classes : DefineClass(c)
  \/ \E e \in Elems : Construct(e)
  \/ \E m \in Members("A") : \E input \in InputsFor(m) : ProgrammaticSet("a", m, input)
  \/ \E name \in AttrNames("a") : \E value \in TextsFor(name) :
       ExternalSetAttribute("a", name, value)
  \/ Tick

SpecOverlap == InitOverlap /\ [][NextOverlap]_vars

\* the two versions of src/lib/decorators.ts on a page whose classes declare
\* defaults that their transformers reject
InitBadDefault ==
  /\ scenario = "badDefault" /\ released = {}
  /\ Start /\ variant \in {"batch", "acb"} /\ reactionWrites = FALSE /\ AllShadowed
  /\ NoTimers /\ NoParse /\ time = 5

\* markup and scripts write the attributes of the counter
NextBadDefault ==
  \/ \E c \in Classes : DefineClass(c)
  \/ \E e \in Elems : Construct(e)
  \/ \E e \in Elems : \E m \in Members(ClassOf(e)) : \E input \in InputsFor(m) :
       ProgrammaticSet(e, m, input)
  \/ \E name \in AttrNames("a") : \E value \in TextsFor(name) :
       ExternalSetAttribute("a", name, value)
  \/ DeliverMutations
  \/ Tick

SpecBadDefault == InitBadDefault /\ [][NextBadDefault]_vars

\* The element tree lets go of an instance: it is removed, and the page keeps
\* no reference of its own.  No decorator has a callback for this.
Release(e) ==
  /\ e \in constructed
  /\ e \notin released
  /\ released' = released \cup {e}
  /\ op' = Op("release", e, "none", Undefined, FALSE)
  /\ trace' = EmptyTrace("release")
  /\ UNCHANGED <<variant, defined, registered, observableAttributes, platformObserved,
                 constructed, store, attrs, attributeChangedHandlers, attributeMetadata,
                 observers, records, listeners, reactivityTargets,
                 reactivityDispatchHandle, frameRequests, lastWrite, unseen, shadowRoot,
                 shadowListeners, reactionWrites, debounceVars, parseVars, scenario>>

\* the objects the module's own structures refer to strongly: the listeners
\* of the bus close over their instance, the pending Set holds its targets,
\* and a requested first call closes over its instance; the WeakMap of
\* change handlers holds its keys weakly
StronglyHeld ==
  Range(listeners) \cup Range(reactivityTargets)
    \cup {frameRequests[i].e :
            i \in {j \in 1..Len(frameRequests) : frameRequests[j].kind = "initial"}}

\* the two versions of src/lib/decorators.ts on a page that removes elements;
\* program code assigns to the elements it still has
NextRelease ==
  \/ \E c \in Classes : DefineClass(c)
  \/ \E e \in Elems : Construct(e)
  \/ \E e \in Elems \ released : \E m \in Members(ClassOf(e)) : \E input \in InputsFor(m) :
       ProgrammaticSet(e, m, input)
  \/ \E e \in Elems : Release(e)
  \/ DeliverMutations
  \/ Tick

SpecRelease == InitDefine /\ [][NextRelease]_vars

\* the batching version with a @reactive method that assigns
InitReentrant ==
  Examples /\ Start /\ variant = "batch" /\ reactionWrites = TRUE /\ AllShadowed /\ NoTimers /\ NoParse /\ time = 5

SpecReentrant == InitReentrant /\ [][Next]_vars

TypeOK ==
  /\ variant \in Variants
  /\ defined \subseteq Classes
  /\ constructed \subseteq Elems
  /\ Len(records) <= MaxRecords
  /\ reactivityDispatchHandle \in {"null", "pending"}

(***************************************************************************)
(* The properties.                                                         *)
(***************************************************************************)
\* the @reactive calls of the last step that a dispatched event caused on e
EventCalls(calls, e) == SelectSeq(calls, LAMBDA c : c.e = e /\ c.cause = "event")

\* C1: in the batching version, the writes to accessors of one object between
\* two frames cause exactly one call of the object's @reactive method in the
\* next frame, and the call reads the value the last write stored.
C1_OneReactionSeesLastWrite ==
  [][(op'.name = "frame" /\ lastWrite.m # "none") =>
       LET evs == EventCalls(trace'.calls, "a")
       IN  /\ Len(evs) = 1
           /\ evs[1].seen[lastWrite.m] = lastWrite.value]_vars

\* C2: a programmatic set whose input fails validate throws, and the stored
\* values, the attributes and the pending notifications are what they were.
C2_RejectedSetChangesNothing ==
  [][(op'.name = "set"
        /\ IsThrow(Validate(TransformerOf(ClassOf(op'.e), op'.m), op'.arg))) =>
       /\ trace'.threw
       /\ store' = store
       /\ attrs' = attrs
       /\ records' = records
       /\ reactivityTargets' = reactivityTargets
       /\ reactivityDispatchHandle' = reactivityDispatchHandle
       /\ frameRequests' = frameRequests
       /\ trace'.published = <<>>
       /\ trace'.calls = <<>>]_vars

\* a set has thrown on a member that holds a value from before
C2_Witness ==
  /\ op.name = "set"
  /\ trace.threw
  /\ IsNum(store[op.e][op.m])

\* C3: right after a successful programmatic set of a reflective member, the
\* attribute's text is stringify of the stored value and the stored value is
\* the validated input.
C3_ReflectedAfterSet ==
  (variant \in {"batch", "acb"} /\ op.name = "set" /\ ~trace.threw
     /\ IsReflective(ClassOf(op.e), op.m)) =>
    LET tr == TransformerOf(ClassOf(op.e), op.m)
    IN  /\ attrs[op.e][op.m] = Stringify(tr, store[op.e][op.m])
        /\ store[op.e][op.m] = Validate(tr, op.arg)

\* C4: construction leaves an @attr member at parse(attribute text) when the
\* attribute is present, whatever the declared default, and at
\* validate(declared default) when it is absent.
C4_InitFromAttributeElseDefault ==
  (variant # "proto" /\ op.name = "construct" /\ op.e \in constructed) =>
    \A m \in Members(ClassOf(op.e)) :
      Decl(ClassOf(op.e), m).kind = "attr" =>
        LET tr == TransformerOf(ClassOf(op.e), m)
        IN  store[op.e][m] =
              IF attrs[op.e][m] # Null THEN Parse(tr, attrs[op.e][m])
              ELSE Validate(tr, Decl(ClassOf(op.e), m).default)

\* a was constructed with the attribute value present and step absent
C4_Witness ==
  /\ op.name = "construct"
  /\ op.e = "a"
  /\ "a" \in constructed
  /\ attrs["a"]["value"] # Null
  /\ attrs["a"]["step"] = Null
  /\ store["a"]["value"] # Decl("A", "value").default

\* C5: every successful set publishes exactly one change notification, the
\* notifications of the attribute-change pathway its reflection triggers
\* counted: one per programmatic set, and one per store of an attribute-driven
\* step.
C5_OneNotificationPerSet ==
  (variant \in {"batch", "acb", "mosync"}) =>
    /\ (op.name = "set" /\ ~trace.threw) => Len(trace.published) = 1
    /\ op.name \in {"attribute", "mutation"} => Len(trace.published) = trace.stores

\* C6: setting a reflected attribute to the text it holds is a no-op for the
\* decorators: no parse, no store, no notification; in the MutationObserver
\* versions the step that would act is the delivery of the records.
C6_SameTextIsNoOp ==
  [][(variant \in {"batch", "acb"}
        /\ \/ op'.name = "attribute" /\ op'.same /\ op'.e \in constructed
           \/ op'.name = "mutation" /\ \A i \in 1..Len(records) : ~records[i].changed) =>
       /\ trace'.parses = 0
       /\ trace'.stores = 0
       /\ trace'.published = <<>>
       /\ store' = store]_vars

\* C7: a programmatic write of the value the member holds already is not
\* deduplicated: it stores, writes stringify(value) into the attribute of a
\* reflective member, and publishes a notification.
C7_SameValueSetNotDeduplicated ==
  (variant # "proto" /\ op.name = "set" /\ ~trace.threw /\ op.same) =>
    LET tr == TransformerOf(ClassOf(op.e), op.m)
        v == Validate(tr, op.arg)
    IN  /\ trace.stores >= 1
        /\ op.e \in Range(trace.published)
        /\ IsReflective(ClassOf(op.e), op.m) =>
             trace.attrWrites = <<[e |-> op.e, name |-> op.m, text |-> Stringify(tr, v)]>>

\* the reflective member step was set to the value it held
C7_Witness ==
  /\ op.name = "set"
  /\ op.m = "step"
  /\ ~trace.threw
  /\ op.same
  /\ trace.attrWrites # <<>>
  /\ trace.published # <<>>

\* C8: the class's own attributeChangedCallback is called for every change of
\* an attribute the class declared itself, with the platform's arguments, and
\* is never called for an attribute only a decorator added.
C8_OriginalCallbackKept ==
  [][/\ \A i \in 1..Len(trace'.origCalls) :
          trace'.origCalls[i].name \in OriginalObserved(ClassOf(trace'.origCalls[i].e))
     /\ (op'.name = "attribute" /\ op'.e \in constructed
           /\ HasOriginalCallback(ClassOf(op'.e))
           /\ op'.m \in OriginalObserved(ClassOf(op'.e))) =>
          trace'.origCalls =
            <<[e |-> op'.e, name |-> op'.m, oldValue |-> attrs[op'.e][op'.m],
               newValue |-> op'.arg]>>]_vars

\* C9: the observedAttributes of a defined class holds the names the class
\* declared itself and every name an accessor decorator has added so far,
\* those added after the class was defined included.
C9_ObservedAttributesLive ==
  variant \in {"acb", "meta", "proto"} =>
    \A c \in defined :
      (OriginalObserved(c) \cup UNION {DeclaredObservable(d) : d \in defined})
        \subseteq ObservedAttributes(c)

\* C10: in the attributeChangedCallback version, a platform notification with
\* differing texts for a name the instance registered leaves the member at
\* parse(new text), writes no attribute and publishes a notification.
C10_AttributeChangeParsesAndPublishes ==
  (variant = "acb" /\ op.name = "attribute" /\ op.e \in constructed /\ ~op.same
     /\ op.m \in platformObserved[ClassOf(op.e)]
     /\ op.m \in DOMAIN attributeChangedHandlers[op.e]) =>
    LET m == attributeChangedHandlers[op.e][op.m]
    IN  /\ store[op.e][m] = Parse(TransformerOf(ClassOf(op.e), m), op.arg)
        /\ attrs[op.e][op.m] = op.arg
        /\ trace.attrWrites = <<>>
        /\ trace.published = <<op.e>>

\* the attribute step of a changed from absent or other text to "2.5"
C10_Witness ==
  /\ variant = "acb"
  /\ op.name = "attribute"
  /\ op.e = "a"
  /\ op.m = "step"
  /\ "a" \in constructed
  /\ ~op.same
  /\ op.arg = Str(<<"2", ".", "5">>)
  /\ store["a"]["step"] = Num(4)
  /\ trace.published = <<"a">>

\* C11: every change notification published for an object, one published by
\* a @reactive method while the pending set is flushed included, is followed
\* by a call of the object's @reactive method that starts after the write.  A
\* frame fires only for a request, so as long as the object has a notification
\* its method has not started on, the flush is requested for a coming frame.
C11_NotificationReachesReaction ==
  variant = "batch" =>
    \A e \in unseen :
      /\ reactivityDispatchHandle = "pending"
      /\ [kind |-> "flush"] \in Range(frameRequests)

\* the calls of the last step that are first calls requested by an initializer
InitialCalls(calls, e) == SelectSeq(calls, LAMBDA c : c.e = e /\ c.cause = "initial")

\* the first calls of e's @reactive method that wait for a frame
InitialRequests(frames, e) == SelectSeq(frames, LAMBDA f : f = [kind |-> "initial", e |-> e])

\* what a step does about the initial call of each instance
InitialCallStep ==
  variant \in {"batch", "acb", "mosync"} =>
       \A e \in Elems :
         /\ op'.name # "frame" => InitialCalls(trace'.calls, e) = <<>>
         /\ op'.name = "frame" =>
              /\ Len(InitialCalls(trace'.calls, e)) = Len(InitialRequests(frameRequests, e))
              /\ InitialRequests(frameRequests', e) = <<>>
         /\ (op'.name = "construct" /\ op'.e = e /\ e \in constructed') =>
              Len(InitialRequests(frameRequests', e)) = 1
         /\ (op'.name # "frame" /\ ~(op'.name = "construct" /\ op'.e = e)) =>
              InitialRequests(frameRequests', e) = InitialRequests(frameRequests, e)
         /\ Len(InitialRequests(frameRequests', e)) <= 1
         /\ \A i \in 1..Len(InitialCalls(trace'.calls, e)) :
              /\ e \in constructed
              /\ \A m \in Members(ClassOf(e)) :
                   InitialCalls(trace'.calls, e)[i].seen[m] # Undefined

\* C12: the @reactive method of a constructed instance gets one initial call,
\* deferred to a frame: the construction requests it once and calls nothing,
\* the next frame makes the call, every augmented accessor of the instance is
\* initialised when it runs, and no other step makes or requests such a call.
C12_InitialCallDeferred == [][InitialCallStep]_vars

\* a frame has made the initial call of a's @reactive method
C12_Witness ==
  /\ op.name = "frame"
  /\ InitialCalls(trace.calls, "a") # <<>>
  /\ InitialCalls(trace.calls, "a")[1].seen["value"] # Undefined

\* what a step's calls of @reactive methods answer to
ReactionCallsStep ==
  \A i \in 1..Len(trace'.calls) :
    \/ /\ trace'.calls[i].cause = "initial"
       /\ InitialRequests(frameRequests, trace'.calls[i].e) # <<>>
    \/ /\ trace'.calls[i].cause = "event"
       /\ trace'.calls[i].source = trace'.calls[i].e
       /\ trace'.calls[i].e \in Range(reactivityTargets) \cup Range(trace'.published)

\* C13: the @reactive method of an object is called only as its initial
\* deferred call or for an event of the shared bus whose source is that
\* object, which was notified; a notification for another object calls nothing
\* of it.
C13_ReactionOnlyForOwnSource == [][ReactionCallsStep]_vars

\* a frame has dispatched the event of a while b listens on the same bus, and
\* only the method of a was called
C13_Witness ==
  /\ op.name = "frame"
  /\ {"a", "b"} \subseteq Range(listeners)
  /\ EventCalls(trace.calls, "a") # <<>>
  /\ EventCalls(trace.calls, "b") = <<>>

\* call i is the last of its burst: no call follows it within the delay
LastOfBurst(i) ==
  i = Len(wrapperCalls) \/ wrapperCalls[i + 1].at - wrapperCalls[i].at >= time

\* the invocations the bursts of the calls from i on are due by the time upTo:
\* one per burst, the delay after its last call, with that call's arguments
RECURSIVE TrailingInvocations(_, _)
TrailingInvocations(i, upTo) ==
  IF i > Len(wrapperCalls) THEN <<>>
  ELSE (IF LastOfBurst(i) /\ wrapperCalls[i].at + time <= upTo
        THEN <<[at |-> wrapperCalls[i].at + time, args |-> wrapperCalls[i].args]>>
        ELSE <<>>) \o TrailingInvocations(i + 1, upTo)

\* C14: each burst of calls less than the delay apart yields exactly one
\* invocation of the wrapped function, the delay after the burst's last call
\* and with that call's arguments; at the time an invocation is due, its
\* timeout may be about to fire.
C14_OneTrailingInvocationPerBurst ==
  \/ funcCalls = TrailingInvocations(1, clock)
  \/ TimeoutDue /\ funcCalls = TrailingInvocations(1, clock - 1)

\* the scenario of the delay 50 ms: calls at 0, 10 and 20 ms with a, b and c,
\* and one invocation at 70 ms with c
C14_Witness ==
  /\ time = 5
  /\ wrapperCalls = <<[at |-> 0, args |-> "a"], [at |-> 1, args |-> "b"],
                      [at |-> 2, args |-> "c"]>>
  /\ funcCalls = <<[at |-> 7, args |-> "c"]>>
  /\ clock = 8

\* the calls so far are one burst that still lasts at the time now
BurstLasts(calls, now) ==
  /\ calls # <<>>
  /\ \A k \in 1..(Len(calls) - 1) : calls[k + 1].at - calls[k].at < time
  /\ now - calls[Len(calls)].at < time

\* what a step does about the wrapped function
TrailingEdgeStep ==
  /\ Len(wrapperCalls') > Len(wrapperCalls) => funcCalls' = funcCalls
  /\ funcCalls' # funcCalls =>
       \A k \in 1..Len(wrapperCalls) : wrapperCalls[k].at + time <= clock
  /\ BurstLasts(wrapperCalls', clock') => funcCalls' = <<>>

\* C15: the debounced function is trailing-edge only: a call of it never
\* invokes the wrapped function, an invocation comes only when no call arrived
\* during the delay before it, and while the calls keep coming less than the
\* delay apart there is no invocation, however long the burst has lasted.
C15_TrailingEdgeOnly == [][TrailingEdgeStep]_vars

\* a burst has lasted longer than the delay, and nothing was invoked
C15_Witness ==
  /\ time = 2
  /\ Len(wrapperCalls) = MaxCalls
  /\ BurstLasts(wrapperCalls, clock)
  /\ clock - wrapperCalls[1].at > time
  /\ funcCalls = <<>>

\* C16: when an instance has no shadow root as the initializer of a @handle
\* method runs, the initializer throws: the construction fails, and no
\* listener is attached for the instance.
C16_NoShadowRootThrows ==
  \A e \in Elems :
    (HandleDecls(ClassOf(e)) # <<>> /\ ~shadowRoot[e]) =>
      /\ shadowListeners[e] = <<>>
      /\ e \notin constructed
      /\ (op.name = "construct" /\ op.e = e) => trace.threw

\* the construction of a counter without a shadow root has thrown
C16_Witness ==
  /\ op.name = "construct"
  /\ op.e = "a"
  /\ ~shadowRoot["a"]
  /\ trace.threw
  /\ shadowListeners["a"] = <<>>

\* the methods of the listeners hs whose selector is among sels, in order
MethodsFor(hs, sels) ==
  [i \in 1..Len(SelectSeq(hs, LAMBDA h : h.selector \in sels)) |->
     SelectSeq(hs, LAMBDA h : h.selector \in sels)[i].method]

\* C17 as stated: with the two subscribers on one shadow root, a click calls
\* exactly the handlers whose selector the event's target matches: none when
\* it matches neither, one when it matches only that one.
C17_OnlyMatchedSelectorHandled ==
  op.name = "click" =>
    trace.handled = MethodsFor(shadowListeners[op.e], op.arg.self)

\* the selectors that let an event on target t through: those an HTML element
\* matches itself and, where the listener tests closest (the batching version
\* of src/lib/decorators.ts), those an element around it matches
Passing(t) ==
  IF ~t.html THEN {}
  ELSE IF variant = "batch" THEN t.self \cup t.within
  ELSE t.self

\* C17 amended: a click whose target is an HTML element calls exactly the
\* handlers whose selector the target matches or, in the version that tests
\* closest, an element around the target matches: none when that holds of
\* neither selector, one when it holds of one only; a target that is not an
\* HTML element calls none.
C17_HandledBySelectorPolicy ==
  op.name = "click" =>
    /\ Passing(op.arg) \cap {"button.plus", "button.minus"} = {} => trace.handled = <<>>
    /\ Passing(op.arg) = {"button.plus"} => trace.handled = <<"increment">>
    /\ Passing(op.arg) = {"button.minus"} => trace.handled = <<"decrement">>

\* a click on an element that neither button is or holds has called no
\* handler of the two that listen
C17_Witness ==
  /\ op.name = "click"
  /\ op.m = "other"
  /\ Len(shadowListeners[op.e]) = 2
  /\ trace.handled = <<>>

\* a member @attr refuses: no accessor, a symbol name, or private
Refused(context) == context.kind # "accessor" \/ context.symbol \/ context.private

RefusedMemberStep ==
  (op'.name = "define" /\ op'.m = "Other" /\ Refused(op'.arg)) =>
    /\ trace'.threw
    /\ op'.arg.name \notin observableAttributes' \ observableAttributes
    /\ \A i \in 1..Len(trace'.initializers) : trace'.initializers[i] # op'.arg.name
    /\ trace'.defines = <<>>
    /\ registered' = registered
    /\ constructed' = constructed

\* C18: when @attr is applied to a member that is no accessor, that has a
\* symbol name or that is private, the evaluation of the class definition
\* throws; the member's name is not added to the module-level set of attribute
\* names, no initializer is added for it, the class is not registered and no
\* instance comes to exist.
C18_RefusedMemberThrowsAtDefinition == [][RefusedMemberStep]_vars

\* a private accessor was refused after the accessor before it had been
\* registered
C18_Witness ==
  /\ op.name = "define" /\ op.m = "Other"
  /\ op.arg.kind = "accessor" /\ ~op.arg.symbol /\ op.arg.private
  /\ trace.threw
  /\ variant = "acb"
  /\ observableAttributes = {"z"}
  /\ trace.initializers = <<"z">>

\* the members a class definition decorates
DecoratedMembers(c) == IF c = "Other" THEN {"z", "w"} ELSE Members(c)

DefineCallsStep ==
  op'.name = "define" =>
    /\ Len(trace'.defines) <= 1
    /\ registered \subseteq registered'
    /\ \A i \in 1..Len(trace'.defines) :
         /\ trace'.defines[i].tag \notin registered
         /\ trace'.defines[i].tag \in registered'
         /\ trace'.defines[i].applied = DecoratedMembers(op'.m)
    /\ trace'.defines = <<>> => registered' = registered

\* C19: the evaluation of a class definition calls customElements.define at
\* most once, never for a tag that is registered, and only after the
\* decorators of all members of the class have returned; a registered tag
\* stays registered, so no tag is defined twice however often the class
\* initializer runs.
C19_DefineOncePerTag == [][DefineCallsStep]_vars

\* the class initializer ran for a tag that was registered, and called nothing
C19_Witness ==
  /\ op.name = "define" /\ op.m = "Other"
  /\ ~Refused(op.arg)
  /\ ~trace.threw
  /\ trace.initializers = <<"z", "w">>
  /\ trace.defines = <<>>
  /\ "other-element" \in registered

\* C20: for number(options) and int(options) with min <= max, parse returns
\* min for every numeric input below min, max for every numeric input above
\* max, and the input's numeric value, truncated by int, for every input
\* inside the bounds.
C20_ParseClampsToBounds ==
  (parsed.called /\ IsNum(ToNumber(parsed.value))) =>
    LET asNumber == ToNumber(parsed.value)
    IN  /\ Lt(asNumber, transformer.min) => parsed.result = transformer.min
        /\ Gt(asNumber, transformer.max) => parsed.result = transformer.max
        /\ (Ge(asNumber, transformer.min) /\ Le(asNumber, transformer.max)) =>
             parsed.result = IF transformer.kind = "int" THEN MathTrunc(asNumber)
                             ELSE asNumber

\* C21: validate of number(options) and int(options) throws for every input
\* that Number() does not convert to a number and for every numeric input
\* below min or above max, and returns the numeric value of every input
\* inside the bounds.
C21_ValidateRejectsOutOfContract ==
  validation.called =>
    LET asNumber == ToNumber(validation.value)
    IN  /\ ~IsNum(asNumber) => IsThrow(validation.result)
        /\ (Lt(asNumber, transformer.min) \/ Gt(asNumber, transformer.max)) =>
             IsThrow(validation.result)
        /\ (Ge(asNumber, transformer.min) /\ Le(asNumber, transformer.max)) =>
             validation.result = asNumber

\* validate threw for a text that is no number
C21_Witness ==
  /\ validation.called
  /\ validation.value = Str(<<"a", "b", "c">>)
  /\ IsThrow(validation.result)

\* C22: for number(options) and int(options), a value that validate accepted
\* comes back from parse(stringify(value)) as it was.
C22_ParseInvertsStringify ==
  stringified.called => stringified.result = stringified.value

\* C24: parse of number(options) and int(options) returns, for every raw
\* input (numeric text, text that is no number, empty text, null), a number
\* v with min <= v <= max.
C24_ParseReturnsValidValue ==
  (parsed.called /\ parsed.value.t \in {"string", "null"}) =>
    /\ IsNum(parsed.result)
    /\ Le(transformer.min, parsed.result)
    /\ Le(parsed.result, transformer.max)

\* a whole number
IsInteger(v) == IsNum(v) /\ v.h % 2 = 0

\* C23: an accessor under @attr(int(...)) of a constructed element holds a
\* whole number, whatever inits, programmatic sets and attribute changes
\* came before.
C23_IntMemberHoldsInteger ==
  \A e \in constructed : \A m \in Members(ClassOf(e)) :
    TransformerOf(ClassOf(e), m).kind = "int" => IsInteger(store[e][m])

\* a text that validate of the member's transformer rejects
Rejected(e, m, text) ==
  text # Null /\ IsThrow(Validate(TransformerOf(ClassOf(e), m), text))

\* what parse of the member's transformer makes of a text
ParsedText(e, m, text) == Parse(TransformerOf(ClassOf(e), m), text)

AttributeWriteStep ==
  variant \in {"batch", "acb"} =>
    /\ op'.name = "construct" =>
         /\ ~trace'.threw
         /\ \A m \in Members(ClassOf(op'.e)) :
              (Decl(ClassOf(op'.e), m).kind = "attr" /\ Rejected(op'.e, m, attrs[op'.e][m])) =>
                store'[op'.e][m] = ParsedText(op'.e, m, attrs[op'.e][m])
    /\ (variant = "acb" /\ op'.name = "attribute" /\ op'.e \in constructed /\ ~op'.same
          /\ op'.m \in Members(ClassOf(op'.e)) /\ IsReflective(ClassOf(op'.e), op'.m)
          /\ op'.m \in platformObserved[ClassOf(op'.e)]
          /\ Rejected(op'.e, op'.m, op'.arg)) =>
         /\ ~trace'.threw
         /\ store'[op'.e][op'.m] = ParsedText(op'.e, op'.m, op'.arg)
    /\ (variant = "batch" /\ op'.name = "mutation") =>
         /\ ~trace'.threw
         /\ \A i \in 1..Len(records) :
              Rejected(records[i].e, records[i].name, attrs[records[i].e][records[i].name]) =>
                store'[records[i].e][records[i].name] =
                  ParsedText(records[i].e, records[i].name,
                             attrs[records[i].e][records[i].name])
    /\ (op'.name = "set" /\ IsThrow(Validate(TransformerOf(ClassOf(op'.e), op'.m), op'.arg))) =>
         /\ trace'.threw
         /\ store' = store

\* C25: in both versions of src/lib/decorators.ts an attribute's text reaches
\* the accessor through parse alone: a text validate would reject, present at
\* construction or written later, raises no exception and leaves the member at
\* parse(text), while a programmatic set of a value validate rejects throws
\* and stores nothing.
C25_AttributeWritesAreParsed == [][AttributeWriteStep]_vars

\* a was constructed with value="9001": the member holds 9000, and 9001 is
\* above the transformer's max
C25_Witness ==
  /\ op.name = "construct" /\ op.e = "a" /\ "a" \in constructed
  /\ attrs["a"]["value"] = Str(<<"9", "0", "0", "1">>)
  /\ Rejected("a", "value", attrs["a"]["value"])
  /\ store["a"]["value"] = Num(18000)

ParseOnlyStep ==
  (scenario = "parseOnly" /\ ClassOf(op'.e) = "B") =>
    /\ op'.name = "set" =>
         /\ ~trace'.threw
         /\ store'[op'.e][op'.m] = Parse(TransformerOf("B", op'.m), op'.arg)
    /\ op'.name = "construct" =>
         /\ ~trace'.threw
         /\ \A m \in Members("B") :
              (Decl("B", m).kind = "prop" \/ attrs[op'.e][m] = Null) =>
                store'[op'.e][m] = Parse(TransformerOf("B", m), Decl("B", m).default)

\* C26: with a transformer that has no validate, a programmatic set and the
\* declared default go through parse: the set never throws and the member
\* holds parse(input), which is what the input stores when it arrives as an
\* attribute's text.
C26_ParseStandsInForValidate == [][ParseOnlyStep]_vars

\* program code assigned 101 to the accessor of b, and the member holds 100
C26_Witness ==
  /\ scenario = "parseOnly"
  /\ op.name = "set" /\ op.e = "b" /\ op.arg = Num(202)
  /\ ~trace.threw
  /\ store["b"][op.m] = Num(200)

\* C27: when the initializer of a @handle method throws for want of a shadow
\* root, the other decorated members of the instance are initialised all the
\* same: the accessors hold their initial values, the @reactive method
\* listens on the bus, and the instance exists.
C27_SetupErrorSparesOtherMembers ==
  (op.name = "construct" /\ ~shadowRoot[op.e] /\ HandleDecls(ClassOf(op.e)) # <<>>) =>
    /\ op.e \in constructed
    /\ \A m \in Members(ClassOf(op.e)) : store[op.e][m] # Undefined
    /\ op.e \in Range(listeners)

RedeclaredStep ==
  Redeclares("B") =>
    /\ (op'.name = "construct" /\ op'.e = "b") =>
         /\ ~trace'.threw
         /\ "b" \in constructed'
    /\ (op'.name = "attribute" /\ op'.e = "b" /\ "b" \in constructed /\ ~op'.same
          /\ op'.m \in platformObserved["B"]) =>
         /\ ~trace'.threw
         /\ store'["b"]["yBase"] = store["b"]["yBase"]
         /\ store'["b"]["y"] = Parse(TransformerOf("B", "y"), op'.arg)
         /\ trace'.parses = 1

\* C28: when a class declares under @attr an attribute name that its ancestor
\* declared under @attr, constructing an instance raises no error, and a
\* change of the attribute runs the callback registered last and not the one
\* registered first: the ancestor's accessor keeps its value, the class's own
\* takes parse(new text), and parse runs once.
C28_LaterRegistrationReplaces == [][RedeclaredStep]_vars

\* the attribute y of b was set to "2": the class's accessor holds 2, the
\* ancestor's (whose transformer has max 1) its default
C28_Witness ==
  /\ Redeclares("B")
  /\ op.name = "attribute" /\ op.e = "b" /\ op.m = "y" /\ ~op.same
  /\ op.arg = Str(<<"2">>)
  /\ "b" \in constructed
  /\ store["b"]["y"] = Num(4)
  /\ store["b"]["yBase"] = Num(0)

ForeignNameStep ==
  (CarriesForeign /\ op'.name = "attribute" /\ op'.e = "a" /\ op'.m = "y"
     /\ "a" \in constructed /\ "y" \in platformObserved["A"]) =>
    /\ ~trace'.threw
    /\ trace'.parses = 0
    /\ trace'.stores = 0
    /\ store' = store
    /\ trace'.published = <<>>
    /\ trace'.calls = <<>>
    /\ trace'.attrWrites = <<>>

\* C29: the platform reports to an instance of the counter class a change of
\* the attribute y, which only the other class declares and which the counter
\* class observes because the names of all classes are in one set: no parse
\* runs, no accessor of the instance is written, no change notification is
\* published and no @reactive method is called.
C29_ForeignNameTouchesNothing == [][ForeignNameStep]_vars

\* the counter observes y, and its attribute y was set to "2"
C29_Witness ==
  /\ CarriesForeign
  /\ op.name = "attribute" /\ op.e = "a" /\ op.m = "y" /\ ~op.same
  /\ op.arg = Str(<<"2">>)
  /\ "a" \in constructed
  /\ "y" \in platformObserved["A"]
  /\ "y" \notin OriginalObserved("A")

\* C30: once the element tree has let go of an instance, no structure of the
\* module refers to it strongly: it is no listener of the bus, and when no
\* flush is pending it is neither in the pending set nor awaited by a frame.
C30_ReleasedHostIsNotHeld ==
  \A e \in released :
    /\ e \notin Range(listeners)
    /\ (reactivityDispatchHandle = "null" /\ frameRequests = <<>>) => e \notin StronglyHeld

\* the requests for a flush of the pending set that wait for a frame
FlushRequests == SelectSeq(frameRequests, LAMBDA cb : cb.kind = "flush")

\* C31: between the steps of the batching bus, a flush is requested exactly
\* when the pending set is non-empty, and at most one request is outstanding:
\* a notification that finds no request makes one, and a frame whose last
\* callback was the flush leaves the pending set empty and the handle null.
C31_FlushScheduledIffPending ==
  variant = "batch" =>
    /\ (reactivityDispatchHandle = "pending") <=> (reactivityTargets # <<>>)
    /\ Len(FlushRequests) = (IF reactivityTargets # <<>> THEN 1 ELSE 0)
    /\ (op.name \in {"set", "click", "mutation"} /\ trace.published # <<>>) =>
         /\ Range(trace.published) \subseteq Range(reactivityTargets)
         /\ FlushRequests = <<[kind |-> "flush"]>>
    /\ (op.name = "frame" /\ trace.calls # <<>>
          /\ trace.calls[Len(trace.calls)].cause = "event") =>
         /\ reactivityTargets = <<>>
         /\ reactivityDispatchHandle = "null"
         /\ FlushRequests = <<>>

\* a flush has just run while its own listener published again, and the
\* pending set is empty and the handle null
C31_Witness ==
  /\ variant = "batch"
  /\ op.name = "frame"
  /\ Len(trace.calls) >= 2
  /\ trace.calls[Len(trace.calls)].cause = "event"
  /\ trace.published # <<>>
  /\ reactivityTargets = <<>>
  /\ reactivityDispatchHandle = "null"

\* what a notification for an attribute the class's own callback declared
\* does: the own callback runs once, with the texts the platform gave, before
\* any parse; with equal texts nothing else runs
OwnCallbackStep ==
  /\ (op'.name = "attribute" /\ op'.e \in constructed
        /\ HasOriginalCallback(ClassOf(op'.e))
        /\ op'.m \in OriginalObserved(ClassOf(op'.e))) =>
       /\ trace'.origCalls =
            <<[e |-> op'.e, name |-> op'.m, oldValue |-> attrs[op'.e][op'.m],
               newValue |-> op'.arg]>>
       /\ Head(trace'.order) = "original"
       /\ op'.same =>
            /\ trace'.order = <<"original">>
            /\ trace'.stores = 0
            /\ trace'.published = <<>>
            /\ store' = store
       /\ \A i \in 2..Len(trace'.order) : trace'.order[i] = "parse"
  /\ (op'.name = "set" /\ trace'.attrWrites # <<>>
        /\ HasOriginalCallback(ClassOf(op'.e))
        /\ AttrNameOf(op'.m) \in OriginalObserved(ClassOf(op'.e))) =>
       /\ Len(trace'.origCalls) = 1
       /\ trace'.origCalls[1].newValue = trace'.attrWrites[1].text
       /\ Head(trace'.order) = "original"

\* C32: the platform reports a change of an attribute that the class's own
\* attributeChangedCallback declared: the own callback is called first, also
\* when the old and the new text are equal; equal texts keep only the
\* decorators' part from running.
C32_OwnCallbackFirstAndAlways == [][OwnCallbackStep]_vars

\* the counter observes step itself and declares it under @attr, and step was
\* set to the text it had
C32_Witness ==
  /\ scenario = "overlaps"
  /\ op.name = "attribute" /\ op.e = "a" /\ op.m = "step" /\ op.same
  /\ op.arg = Str(<<"2", ".", "5">>)
  /\ "a" \in constructed
  /\ trace.origCalls # <<>>
  /\ trace.order = <<"original">>

\* the names under which the running version finds the member to update when
\* the platform reports a change to e: those of the instance's change
\* handlers, or those of its class's metadata
RegisteredNames(e) ==
  IF variant = "acb" THEN DOMAIN attributeChangedHandlers[e]
  ELSE DOMAIN attributeMetadata[ClassOf(e)]

\* C33: once the initializers of an instance have run, every reactive
\* augmented attribute of its class is registered under its own name, the one
\* whose initializer ran first included, and a change of its text to a
\* different one leaves the member at parse(new text).
C33_EveryAttributeRegistered ==
  variant \in {"acb", "meta", "proto"} =>
    \A e \in constructed :
      \A m \in {x \in Members(ClassOf(e)) : IsReflective(ClassOf(e), x)} :
        /\ AttrNameOf(m) \in RegisteredNames(e)
        /\ (op.name = "attribute" /\ op.e = e /\ op.m = AttrNameOf(m) /\ ~op.same
              /\ ~Redeclares(ClassOf(e))) =>
             store[e][m] = Parse(TransformerOf(ClassOf(e), m), op.arg)

\* what the steps of the cascade of one programmatic write do: the setter
\* writes the attribute once; the microtask that delivers the mutation records
\* stores at most once per record, writes no attribute and queues no record;
\* the frame stores nothing, writes no attribute and requests no frame.  The
\* attributeChangedCallback version stores the parsed text inside the setter's
\* own step and leaves no record behind.
CascadeStep ==
  /\ (op'.name = "set" /\ ~trace'.threw /\ IsReflective(ClassOf(op'.e), op'.m)) =>
       /\ Len(trace'.attrWrites) = 1
       /\ trace'.attrWrites[1].name = AttrNameOf(op'.m)
       /\ attrs'[op'.e][AttrNameOf(op'.m)] = trace'.attrWrites[1].text
       /\ trace'.stores = (IF variant = "acb" /\ attrs'[op'.e] # attrs[op'.e] THEN 2 ELSE 1)
       /\ Len(records') = (IF variant = "acb" THEN 0 ELSE Len(records) + 1)
       /\ Len(frameRequests') <= Len(frameRequests) + 1
  /\ op'.name = "mutation" =>
       /\ trace'.attrWrites = <<>>
       /\ attrs' = attrs
       /\ trace'.stores <= Len(records)
       /\ records' = <<>>
       /\ Len(frameRequests') <= Len(frameRequests) + 1
  /\ op'.name = "frame" =>
       /\ trace'.attrWrites = <<>>
       /\ attrs' = attrs
       /\ trace'.stores = 0
       /\ store' = store
       /\ records' = <<>>
       /\ frameRequests' = <<>>

\* C34: one programmatic write to a reflective member starts a finite
\* cascade: the attribute is written exactly once, what the change of the
\* attribute triggers stores into the accessor's storage and writes no
\* attribute, and after the microtask and the frame the write caused no store
\* and no attribute write is pending.
C34_ReflectCascadeIsFinite == [][CascadeStep]_vars

\* the mutation record of a reflected write has been delivered: the parsed
\* text was stored, and no record waits
C34_Witness ==
  /\ variant = "batch"
  /\ op.name = "mutation"
  /\ trace.stores >= 1
  /\ trace.attrWrites = <<>>
  /\ records = <<>>
  /\ attrs["a"]["step"] = Str(<<"2">>)
  /\ store["a"]["step"] = Num(2 * 2)

\* the members @attr was given reflective: false for
NonReflective(e) ==
  {m \in Members(ClassOf(e)) :
     Decl(ClassOf(e), m).kind = "attr" /\ ~IsReflective(ClassOf(e), m)}

\* what the steps do to a member that is not reflective: its setter leaves
\* the attributes alone; a mutation of its attribute once the instance is
\* constructed queues no record, parses nothing, publishes nothing and
\* leaves the member; the constructor reads the attribute
NonReflectiveStep ==
  \A e \in Elems : \A m \in NonReflective(e) :
    /\ (op'.name = "set" /\ op'.e = e /\ op'.m = m) =>
         /\ trace'.attrWrites = <<>>
         /\ attrs' = attrs
         /\ records' = records
    /\ (op'.name = "attribute" /\ op'.e = e /\ op'.m = AttrNameOf(m)
          /\ e \in constructed) =>
         /\ attrs'[e][AttrNameOf(m)] = op'.arg
         /\ store'[e][m] = store[e][m]
         /\ trace'.parses = 0
         /\ trace'.published = <<>>
         /\ records' = records
    /\ op'.name = "mutation" => store'[e][m] = store[e][m]
    /\ (op'.name = "construct" /\ op'.e = e /\ e \in constructed') =>
         store'[e][m] =
           (IF attrs[e][AttrNameOf(m)] # Null
            THEN Parse(TransformerOf(ClassOf(e), m), attrs[e][AttrNameOf(m)])
            ELSE Validate(TransformerOf(ClassOf(e), m), Decl(ClassOf(e), m).default))

\* C35: for a member declared with reflective: false, a programmatic write
\* creates and changes no attribute, and a mutation of the attribute after
\* construction changes no member and publishes nothing; the attribute is
\* read by the constructor only.
C35_NonReflectiveIsOneWay == [][NonReflectiveStep]_vars

\* the counter was constructed without the attribute value, and markup then
\* set value="9001": the member is still the declared default
C35_Witness ==
  /\ variant = "batch"
  /\ op.name = "attribute" /\ op.e = "a" /\ op.m = "value"
  /\ "a" \in constructed
  /\ attrs["a"]["value"] = Str(<<"9", "0", "0", "1">>)
  /\ store["a"]["value"] = Num(0)
  /\ "value" \in NonReflective("a")

\* whether init finds no attribute for the member: @prop has none
AttributeAbsent(e, m) ==
  Decl(ClassOf(e), m).kind = "prop" \/ attrs[e][AttrNameOf(m)] = Null

\* whether validate rejects the declared default of the member
DefaultRejected(e, m) ==
  IsThrow(Validate(TransformerOf(ClassOf(e), m), Decl(ClassOf(e), m).default))

\* what new C() does, by the attributes the element carries: it throws when a
\* member without its attribute has a default that validate rejects, and else
\* returns an instance whose members with an attribute hold the parsed text
ConstructionStep ==
  op'.name = "construct" =>
    /\ (\E m \in Members(ClassOf(op'.e)) : AttributeAbsent(op'.e, m) /\ DefaultRejected(op'.e, m)) =>
         /\ trace'.threw
         /\ op'.e \notin constructed'
         /\ store' = store
    /\ (\A m \in Members(ClassOf(op'.e)) : AttributeAbsent(op'.e, m) => ~DefaultRejected(op'.e, m)) =>
         /\ ~trace'.threw
         /\ op'.e \in constructed'
         /\ \A m \in Members(ClassOf(op'.e)) :
              ~AttributeAbsent(op'.e, m) =>
                store'[op'.e][m] =
                  Parse(TransformerOf(ClassOf(op'.e), m), attrs[op'.e][AttrNameOf(m)])

\* C36: when the attribute is absent at construction and validate rejects the
\* declared default, new C() throws; when the attribute is present the
\* default is not validated, and the instance is constructed with the parsed
\* text of the attribute.
C36_BadDefaultThrowsUnlessAttribute == [][ConstructionStep]_vars

\* the counter, whose step is declared with the rejected default 0, was
\* constructed with the attribute step="2.5"
C36_Witness ==
  /\ scenario = "badDefault"
  /\ op.name = "construct" /\ op.e = "a"
  /\ "a" \in constructed
  /\ ~trace.threw
  /\ DefaultRejected("a", "step")
  /\ attrs["a"]["step"] = Str(<<"2", ".", "5">>)
  /\ store["a"]["step"] = Num(2 * 2)

\* C37: in the version whose listener tests closest, a click calls a handler
\* with a selector exactly when its target, an element, matches the selector
\* itself or lies inside an element of the shadow root that matches it; a
\* handler without a selector is called for every click.
C37_NearestAncestorInvokes ==
  (variant = "batch" /\ op.name = "click") =>
    trace.handled = MethodsFor(shadowListeners[op.e], op.arg.self \cup op.arg.within \cup {""})

\* the microtask has processed the records: where the last mutation of a
\* reflective member's attribute changed its text, so that the text the
\* record replaced differs from the one the attribute has now, the member
\* holds the parse of the text the attribute has now
SupersededStep ==
  (op'.name = "mutation" /\ variant \in {"batch", "mosync"}) =>
    \A e \in constructed :
      \A m \in {x \in Members(ClassOf(e)) : IsReflective(ClassOf(e), x)} :
        (/\ RecordsOf(records, e, AttrNameOf(m)) # <<>>
         /\ RecordsOf(records, e, AttrNameOf(m))[Len(RecordsOf(records, e, AttrNameOf(m)))].changed) =>
          store'[e][m] = Parse(TransformerOf(ClassOf(e), m), attrs'[e][AttrNameOf(m)])

\* C38: in the MutationObserver versions, however programmatic writes and
\* mutations of the attribute interleave within a task, once the pending
\* records are processed a reflective member holds nothing that comes from a
\* superseded text: if the text a processed record replaced differs from the
\* attribute's current text, the member is parse(current text).
C38_NoSupersededValue == [][SupersededStep]_vars

\* the pending timeouts of the first debounced function, and of the second
TimersOfFirst(ts) == {t \in ts : ~OwnedByOther(t)}

TimersOfOther(ts) == {t \in ts : OwnedByOther(t)}

\* what a step of one debounced function does to the other: nothing.  Each
\* has at most one timeout pending; a call or an invocation of one leaves the
\* handle, the pending timeout (its due time and its arguments) and the
\* invocations of the other; an invocation gets the arguments of its own
\* pending timeout; and a call made when no timeout is pending, after an
\* invocation has run included, sets a fresh timeout.
DebouncePrivateStep ==
  /\ Cardinality(TimersOfFirst(timers')) <= 1
  /\ Cardinality(TimersOfOther(timers')) <= 1
  /\ other' # other =>
       /\ TimersOfFirst(timers') = TimersOfFirst(timers)
       /\ debounceHandle' = debounceHandle
       /\ funcCalls' = funcCalls
  /\ (debounceHandle' # debounceHandle \/ wrapperCalls' # wrapperCalls
        \/ funcCalls' # funcCalls) =>
       /\ TimersOfOther(timers') = TimersOfOther(timers)
       /\ other' = other
  /\ Len(funcCalls') > Len(funcCalls) =>
       /\ TimersOfFirst(timers) =
            {[id |-> debounceHandle, due |-> funcCalls'[Len(funcCalls')].at,
              args |-> funcCalls'[Len(funcCalls')].args]}
       /\ funcCalls'[Len(funcCalls')].args = wrapperCalls[Len(wrapperCalls)].args
       /\ debounceHandle' = 0
  /\ Len(other'.funcCalls) > Len(other.funcCalls) =>
       /\ other'.funcCalls[Len(other'.funcCalls)].args =
            other.wrapperCalls[Len(other.wrapperCalls)].args
       /\ other'.handle = 0
  /\ Len(wrapperCalls') > Len(wrapperCalls) =>
       TimersOfFirst(timers') =
         {[id |-> debounceHandle', due |-> clock + time,
           args |-> wrapperCalls'[Len(wrapperCalls')].args]}
  /\ Len(other'.wrapperCalls) > Len(other.wrapperCalls) =>
       TimersOfOther(timers') =
         {[id |-> other'.handle, due |-> clock + time,
           args |-> other'.wrapperCalls[Len(other'.wrapperCalls)].args]}

\* C39: the state of a debounced function is private to the field of the
\* instance it was made for, and each has at most one timeout pending: a call
\* of one neither cancels nor delays a pending call of another nor changes
\* its arguments, and once the trailing invocation has run a new call sets a
\* fresh timeout.
C39_DebounceStateIsPrivate == [][DebouncePrivateStep]_vars

\* the first function's trailing invocation has run and a new call of it is
\* pending, while a call of the second function, made in between, is pending
\* too
C39_Witness ==
  /\ Len(funcCalls) = 1
  /\ Len(wrapperCalls) = 2
  /\ wrapperCalls[2].at > funcCalls[1].at
  /\ Len(other.wrapperCalls) = 1
  /\ other.funcCalls = <<>>
  /\ other.wrapperCalls[1].at < wrapperCalls[2].at
  /\ Cardinality(TimersOfFirst(timers)) = 1
  /\ Cardinality(TimersOfOther(timers)) = 1

=============================================================================
